---- MODULE Spec2Model ----
(***************************************************************************)
(* MindfulMe mental-health tracker: the database tables (users,            *)
(* user_profiles, health_baseline, daily_logs), one Streamlit session, and *)
(* the handlers and services that read and write them.                     *)
(*                                                                         *)
(* Granularity: one action per handler or service function.  A handler is  *)
(* enabled when main() routes to its page and the session holds a user.    *)
(* An exception raised by a call is recorded in `outcome`; the tables are  *)
(* left as the rolled-back session leaves them.  Where two script threads  *)
(* meet (the st.cache_resource store, two saves of one key) a call is      *)
(* split at its reads and writes of the shared store, held in `threads`.   *)
(*                                                                         *)
(* Numbers: mood, sleep and tension values are integers; every score is    *)
(* held multiplied by Scale so that the averages the code takes are exact. *)
(***************************************************************************)
EXTENDS Integers, FiniteSets, Sequences

VARIABLES
    users,                   \* ids of the rows of table users
    user_profiles,           \* rows of table user_profiles
    health_baseline,         \* rows of table health_baseline
    daily_logs,              \* rows of table daily_logs
    today,                   \* date.today(), as a day number
    user_id,                 \* st.session_state.user_id
    page,                    \* st.session_state.page
    onboarding_step,         \* st.session_state.onboarding_step
    onboarding_data,         \* st.session_state.onboarding_data (keys filled in)
    show_assessment_results, \* st.session_state.show_assessment_results
    current_page,            \* st.session_state.current_page, NullStr while unset
    outcome,                 \* what the last call returned or raised
    cache_resource,          \* the store of st.cache_resource, per loader
    threads                  \* per browser session: the call its script run is in

vars == <<users, user_profiles, health_baseline, daily_logs, today, user_id,
          page, onboarding_step, onboarding_data, show_assessment_results,
          outcome, cache_resource, threads, current_page>>

db_vars == <<users, user_profiles, health_baseline, daily_logs>>

session_vars == <<user_id, page, onboarding_step, onboarding_data,
                  show_assessment_results, current_page>>

process_vars == <<cache_resource, threads>>

(***************************************************************************)
(* Bounds of the model.                                                    *)
(***************************************************************************)
MaxDay == 1                  \* date.today() runs over 0..MaxDay
MaxLogs == 2                 \* rows table daily_logs holds at most
UserIds == {1, 2}            \* two accounts: an owner and another user
Days == 0..MaxDay

(***************************************************************************)
(* Column values.  Null is SQL NULL / Python None in a numeric column,     *)
(* NullStr in a text column.                                               *)
(***************************************************************************)
Null == -1
NullStr == "NULL"

MoodValues == {2, 9}                  \* st.slider(min_value=1, max_value=10)
TensionValues == {85}                 \* score of a successful voice analysis
JournalTexts == {"i feel sad"}        \* a non-blank journal text

Scale == 2520 * 20

Max(a, b) == IF a >= b THEN a ELSE b
Min(a, b) == IF a <= b THEN a ELSE b

RECURSIVE SumField(_, _)
SumField(rows, f) ==
    IF rows = {} THEN 0
    ELSE LET r == CHOOSE x \in rows : TRUE
         IN  r[f] + SumField(rows \ {r}, f)

\* Python truthiness of an optional number: None and 0 are both false.
Truthy(x) == x # Null /\ x # 0

(***************************************************************************)
(* Outcomes of calls.                                                      *)
(***************************************************************************)
NoRet == [score |-> 0, current_mood |-> 0, weekly_mood_avg |-> 0,
          total_journals |-> 0, sleep_avg |-> 0, assessment_completed |-> FALSE]
\* op: the call, arg: its argument, exc: the exception it raised or "none",
\* ret: what it returned.  Idle after a handler that returned nothing.
Idle == [op |-> "none", arg |-> 0, exc |-> "none", ret |-> NoRet]
Called(op, arg, exc, ret) == [op |-> op, arg |-> arg, exc |-> exc, ret |-> ret]

(***************************************************************************)
(* The process: Streamlit runs the script of each browser session on a     *)
(* thread of its own; st.cache_resource keeps one store for all of them.   *)
(***************************************************************************)
Sessions == {1, 2}
Loaders == {"load_sentiment_model", "load_voice_libraries"}

\* cached: the store holds the loader's return value; value: TRUE for the
\* loaded backend, FALSE for (None, None); lock: the session computing the
\* value, 0 when free; runs: executions of the loader's body; wanted: a call
\* that needs the backend has been made.
EmptyCache ==
    [f \in Loaders |->
        [cached |-> FALSE, value |-> FALSE, lock |-> 0, runs |-> 0,
         wanted |-> FALSE]]

NoCall == [op |-> "none"]
IdleThread == [pc |-> "idle", call |-> NoCall]
NoThreads == [s \in Sessions |-> IdleThread]

(***************************************************************************)
(* Table daily_logs.  The columns no save writes and no analytics reads    *)
(* (id, created_at, ai_sentiment_score, cognitive_distortions) are left    *)
(* out, as are the timestamps of the other tables.                         *)
(***************************************************************************)
\* a constructor that copies the profile's usual sleep into the row
DailyLogWithSleep(u, d, mood, text, sentiment, emotion) ==
    [user_id |-> u, log_date |-> d, mood_score |-> mood,
     journal_text |-> text, ai_sentiment |-> sentiment, ai_emotion |-> emotion,
     vocal_tension |-> Null, sleep_hours |-> 7]

DailyLog(u, d, mood, text, sentiment, emotion) ==
    [user_id |-> u, log_date |-> d, mood_score |-> mood,
     journal_text |-> text, ai_sentiment |-> sentiment, ai_emotion |-> emotion,
     vocal_tension |-> Null, sleep_hours |-> Null]

\* session.query(DailyLog).filter(user_id == u, log_date == d)
LogsFor(u, d) == {r \in daily_logs : r.user_id = u /\ r.log_date = d}

\* UniqueConstraint("user_id", "log_date"): the INSERT of a second row for a
\* key fails at commit with IntegrityError.
ViolatesUniqueUserDate(row) == LogsFor(row.user_id, row.log_date) # {}

\* session.add(row); commit.  The operator yields the table and the exception.
InsertDailyLog(row) ==
    IF ViolatesUniqueUserDate(row)
    THEN [logs |-> daily_logs, exc |-> "IntegrityError"]
    ELSE [logs |-> daily_logs \cup {row}, exc |-> "none"]

UpdateDailyLog(old, new) ==
    [logs |-> (daily_logs \ {old}) \cup {new}, exc |-> "none"]

(***************************************************************************)
(* Python's str operations, on TLA+ strings.                               *)
(***************************************************************************)
UpperCase == "ABCDEFGHIJKLMNOPQRSTUVWXYZ"
LowerCase == "abcdefghijklmnopqrstuvwxyz"
Digits == "0123456789_"
Whitespace == {" ", "\t", "\n"}

CharAt(text, i) == SubSeq(text, i, i)

CharIn(c, alphabet) == \E i \in 1..Len(alphabet) : CharAt(alphabet, i) = c

\* str.lower(), one character
LowerChar(c) ==
    IF CharIn(c, UpperCase)
    THEN CharAt(LowerCase, CHOOSE i \in 1..Len(UpperCase) : CharAt(UpperCase, i) = c)
    ELSE c

RECURSIVE Lower(_)
Lower(text) ==
    IF text = "" THEN ""
    ELSE LowerChar(CharAt(text, 1)) \o Lower(SubSeq(text, 2, Len(text)))

\* not text or not text.strip()
IsBlank(text) == \A i \in 1..Len(text) : CharAt(text, i) \in Whitespace

\* sub in text
Contains(text, sub) ==
    \E i \in 1..(Len(text) - Len(sub) + 1) : SubSeq(text, i, i + Len(sub) - 1) = sub

\* len(text.split())
WordCount(text) ==
    Cardinality({i \in 1..Len(text) :
                    /\ CharAt(text, i) \notin Whitespace
                    /\ (i = 1 \/ CharAt(text, i - 1) \in Whitespace)})

\* \w at position i of text; FALSE outside the text
IsWordAt(text, i) ==
    /\ 1 <= i /\ i <= Len(text)
    /\ \/ CharIn(CharAt(text, i), LowerCase)
       \/ CharIn(CharAt(text, i), UpperCase)
       \/ CharIn(CharAt(text, i), Digits)

\* \b between positions i and i+1
WordBoundary(text, i) == IsWordAt(text, i) # IsWordAt(text, i + 1)

\* text has pattern anywhere, word boundaries not required
SearchAnywhere(pattern, text) == Contains(text, pattern)

\* re.search(r'\b' + re.escape(pattern) + r'\b', text)
Search(pattern, text) ==
    \E i \in 1..(Len(text) - Len(pattern) + 1) :
        /\ SubSeq(text, i, i + Len(pattern) - 1) = pattern
        /\ WordBoundary(text, i - 1)
        /\ WordBoundary(text, i + Len(pattern) - 1)

InList(x, list) == \E i \in 1..Len(list) : list[i] = x

\* any(word in text for word in words)
AnyIn(words, text) == \E i \in 1..Len(words) : Contains(text, words[i])

(***************************************************************************)
(* ai_service.  The classifier is outside the program: `model` is what     *)
(* load_sentiment_model returned (TRUE: tokenizer and model, FALSE: None,  *)
(* None) and `verdict` what the model call does with the text: it raises,  *)
(* or gives a label and a confidence.  Confidences are in percent.  Each   *)
(* result carries `calls`, the calls made to the backend on the way.       *)
(***************************************************************************)
NeutralConfidence == 50                \* 0.5
ConfidentAbove == 70                   \* confidence > 0.7

SentimentResult(sentiment, confidence, calls) ==
    [sentiment |-> sentiment, confidence |-> confidence, calls |-> calls]

AnalyzeSentimentNoModelCheck(text, model, verdict) ==
    IF IsBlank(text) THEN SentimentResult("NEUTRAL", NeutralConfidence, <<>>)
    ELSE IF verdict.raises
    THEN SentimentResult("NEUTRAL", NeutralConfidence,
                         <<"load_sentiment_model", "model">>)
    ELSE SentimentResult(verdict.sentiment, verdict.confidence,
                         <<"load_sentiment_model", "model">>)

analyze_sentiment(text, model, verdict) ==
    IF IsBlank(text) THEN SentimentResult("NEUTRAL", NeutralConfidence, <<>>)
    ELSE IF ~model
    THEN SentimentResult("NEUTRAL", NeutralConfidence, <<"load_sentiment_model">>)
    ELSE IF verdict.raises
    THEN SentimentResult("NEUTRAL", NeutralConfidence,
                         <<"load_sentiment_model", "model">>)
    ELSE SentimentResult(verdict.sentiment, verdict.confidence,
                         <<"load_sentiment_model", "model">>)

\* the emotions dict, in declaration order
EMOTIONS ==
    << [emotion |-> "joy",
        keywords |-> <<"happy", "joy", "excited", "great", "wonderful", "amazing",
                       "love", "fantastic">>],
       [emotion |-> "sadness",
        keywords |-> <<"sad", "depressed", "unhappy", "miserable", "down", "blue",
                       "heartbroken">>],
       [emotion |-> "anger",
        keywords |-> <<"angry", "mad", "furious", "irritated", "annoyed",
                       "frustrated", "hate">>],
       [emotion |-> "fear",
        keywords |-> <<"scared", "afraid", "anxious", "worried", "nervous",
                       "terrified", "panic">>],
       [emotion |-> "surprise",
        keywords |-> <<"surprised", "shocked", "amazed", "astonished", "unexpected">>],
       [emotion |-> "disgust",
        keywords |-> <<"disgusted", "gross", "repulsed", "sick", "hate", "awful">>] >>

\* sum(1 for keyword in keywords if keyword in text_lower)
KeywordCount(keywords, text_lower) ==
    Cardinality({i \in 1..Len(keywords) : Contains(text_lower, keywords[i])})

\* max(emotion_scores, key=emotion_scores.get): the first emotion, in
\* declaration order, with the highest count
analyze_emotion(text) ==
    IF text = "" THEN "neutral"
    ELSE LET text_lower == Lower(text)
             count == [i \in 1..Len(EMOTIONS) |->
                          KeywordCount(EMOTIONS[i].keywords, text_lower)]
             scored == {i \in 1..Len(EMOTIONS) : count[i] > 0}
         IN  IF scored = {} THEN "neutral"
             ELSE EMOTIONS[CHOOSE i \in scored :
                              \A j \in scored :
                                  count[i] > count[j] \/ (count[i] = count[j] /\ i <= j)
                          ].emotion

\* COGNITIVE_DISTORTIONS, in declaration order
COGNITIVE_DISTORTIONS ==
    << [name |-> "catastrophizing",
        patterns |-> <<"worst", "terrible", "disaster", "ruined", "end of the world",
                       "never recover">>,
        description |-> "Expecting the worst possible outcome"],
       [name |-> "black_and_white",
        patterns |-> <<"always", "never", "everyone", "no one", "everything",
                       "nothing">>,
        description |-> "All-or-nothing thinking"],
       [name |-> "mind_reading",
        patterns |-> <<"they think", "they must think", "everyone thinks",
                       "they probably think">>,
        description |-> "Assuming you know what others are thinking"],
       [name |-> "should_statements",
        patterns |-> <<"should have", "must have", "ought to", "have to">>,
        description |-> "Using 'should' statements to criticize yourself or others"],
       [name |-> "overgeneralization",
        patterns |-> <<"this always happens", "i never", "every time",
                       "nothing ever">>,
        description |-> "Drawing broad conclusions from a single event"] >>

\* the loop over one type's patterns: the first that matches, then break
DetectOne(distortion, text_lower) ==
    LET hits == {k \in 1..Len(distortion.patterns) :
                    Search(distortion.patterns[k], text_lower)}
    IN  IF hits = {} THEN <<>>
        ELSE << [type |-> distortion.name,
                 description |-> distortion.description,
                 matched_pattern |->
                    distortion.patterns[CHOOSE k \in hits : \A j \in hits : k <= j]] >>

RECURSIVE DetectFrom(_, _)
DetectFrom(i, text_lower) ==
    IF i > Len(COGNITIVE_DISTORTIONS) THEN <<>>
    ELSE DetectOne(COGNITIVE_DISTORTIONS[i], text_lower) \o DetectFrom(i + 1, text_lower)

detect_cognitive_distortions(text) == DetectFrom(1, Lower(text))

\* the theme rules, in the order of the code
THEMES ==
    << [theme |-> "work-related",
        words |-> <<"work", "job", "career", "boss", "colleague">>],
       [theme |-> "family/relationships",
        words |-> <<"family", "parent", "child", "spouse", "relationship">>],
       [theme |-> "health concerns",
        words |-> <<"health", "sick", "pain", "doctor", "medicine">>],
       [theme |-> "stress/anxiety",
        words |-> <<"stress", "anxious", "worried", "overwhelmed">>],
       [theme |-> "sleep/fatigue",
        words |-> <<"sleep", "tired", "exhausted", "rest">>] >>

RECURSIVE ThemesFrom(_, _)
ThemesFrom(i, text_lower) ==
    IF i > Len(THEMES) THEN <<>>
    ELSE (IF AnyIn(THEMES[i].words, text_lower) THEN <<THEMES[i].theme>> ELSE <<>>)
         \o ThemesFrom(i + 1, text_lower)

When(cond, recommendation) == IF cond THEN <<recommendation>> ELSE <<>>

\* the recommendation rules; `"stress" in themes` and `"sleep" in themes` test
\* whether the list themes has that very element
Recommend(sentiment, confidence, emotion, distortions, themes) ==
    When(sentiment = "NEGATIVE" /\ confidence > ConfidentAbove,
         "Consider practicing mindfulness or deep breathing exercises")
    \o When(sentiment = "NEGATIVE" /\ confidence > ConfidentAbove
              /\ InList("stress", themes),
            "Try progressive muscle relaxation before bed")
    \o When(emotion = "anger",
            "Consider journaling about what specifically triggered this anger")
    \o When(distortions # <<>>,
            "Notice any 'all-or-nothing' thinking patterns and challenge them")
    \o When(InList("sleep", themes) /\ sentiment = "NEGATIVE",
            "Establish a consistent bedtime routine")

GenerateInsightsCountingChars(text, model, verdict) ==
    [sentiment |-> "NEUTRAL", sentiment_confidence |-> 0, emotion |-> "neutral",
     cognitive_distortions |-> <<>>, word_count |-> Len(text), themes |-> <<>>,
     recommendations |-> <<>>, calls |-> <<>>]

generate_journal_insights(text, model, verdict) ==
    IF IsBlank(text)
    THEN [sentiment |-> "NEUTRAL", sentiment_confidence |-> 0, emotion |-> "neutral",
          cognitive_distortions |-> <<>>, word_count |-> 0, themes |-> <<>>,
          recommendations |-> <<>>, calls |-> <<>>]
    ELSE LET analysed == analyze_sentiment(text, model, verdict)
             emotion == analyze_emotion(text)
             distortions == detect_cognitive_distortions(text)
             themes == ThemesFrom(1, Lower(text))
         IN  [sentiment |-> analysed.sentiment,
              sentiment_confidence |-> analysed.confidence,
              emotion |-> emotion,
              cognitive_distortions |-> distortions,
              word_count |-> WordCount(text),
              themes |-> themes,
              recommendations |-> Recommend(analysed.sentiment, analysed.confidence,
                                            emotion, distortions, themes),
              calls |-> analysed.calls]

\* What the classifier makes of the journal texts of the model: it is loaded,
\* and confident that a text with "sad" in it is negative.
ModelLoaded == TRUE
ModelVerdict(text) ==
    [raises |-> FALSE,
     sentiment |-> IF Contains(Lower(text), "sad") THEN "NEGATIVE" ELSE "POSITIVE",
     confidence |-> 90]

\* analyze_sentiment(journal_text) and generate_journal_insights(journal_text)
\* ['emotion'] for each journal text of the model
JournalAnalyses ==
    [text \in JournalTexts |->
        [sentiment |-> analyze_sentiment(text, ModelLoaded, ModelVerdict(text)).sentiment,
         emotion |-> generate_journal_insights(text, ModelLoaded,
                                               ModelVerdict(text)).emotion]]

(***************************************************************************)
(* The three saves of the dashboard.  Each yields the set of possible      *)
(* results [logs, exc]; .first() of a query may return any matching row.   *)
(***************************************************************************)
SaveMoodEntryAlwaysInsert(u, d, mood) ==
    {InsertDailyLog(DailyLog(u, d, mood, NullStr, NullStr, NullStr))}

save_mood_entry(u, d, mood) ==
    IF LogsFor(u, d) # {}
    THEN {UpdateDailyLog(e, [e EXCEPT !.mood_score = mood]) : e \in LogsFor(u, d)}
    ELSE {InsertDailyLog(DailyLog(u, d, mood, NullStr, NullStr, NullStr))}

\* a journal save that writes a fresh row in place of the existing one
SaveJournalEntryReplaceRow(u, text) ==
    LET sentiment == JournalAnalyses[text].sentiment
        emotion == JournalAnalyses[text].emotion
        row == DailyLog(u, today, Null, text, sentiment, emotion)
    IN  IF LogsFor(u, today) # {}
        THEN {UpdateDailyLog(e, row) : e \in LogsFor(u, today)}
        ELSE {InsertDailyLog(row)}

save_journal_entry(u, text) ==
    LET sentiment == JournalAnalyses[text].sentiment
        emotion == JournalAnalyses[text].emotion
    IN  IF LogsFor(u, today) # {}
        THEN {UpdateDailyLog(e, [e EXCEPT !.journal_text = text,
                                          !.ai_sentiment = sentiment,
                                          !.ai_emotion = emotion])
                : e \in LogsFor(u, today)}
        ELSE {InsertDailyLog(DailyLog(u, today, Null, text, sentiment, emotion))}

save_voice_analysis(u, tension_score) ==
    IF LogsFor(u, today) # {}
    THEN {UpdateDailyLog(e, [e EXCEPT !.vocal_tension = tension_score])
            : e \in LogsFor(u, today)}
    ELSE {[logs |-> daily_logs, exc |-> "none"]}

(***************************************************************************)
(* analytics_service.calculate_burnout_risk                                *)
(***************************************************************************)
WindowDays == 7

RecentLogsAnyUser(u) ==
    {r \in daily_logs : r.log_date >= today - WindowDays}

\* filter(DailyLog.user_id == u, DailyLog.log_date >= (now - 7 days).date())
RecentLogs(u) ==
    {r \in daily_logs : r.user_id = u /\ r.log_date >= today - WindowDays}

MoodFactorInverted(rows) ==
    LET n == Cardinality(rows)
        total == SumField(rows, "mood_score")
    IN  (Max(0, total - 6 * n) * 8 * Scale) \div n

\* max(0, (6 - avg_mood) / 5) * 40, times Scale
MoodFactor(rows) ==
    LET n == Cardinality(rows)
        total == SumField(rows, "mood_score")
    IN  (Max(0, 6 * n - total) * 8 * Scale) \div n

\* [log for log in recent_logs if log.sleep_hours]
SleepLogs(rows) == {r \in rows : Truthy(r.sleep_hours)}

\* max(0, (8 - avg_sleep) / 8) * 30 over the sleep logs, 0 without any
SleepFactor(rows) ==
    LET k == Cardinality(SleepLogs(rows))
        total == SumField(SleepLogs(rows), "sleep_hours")
    IN  IF k = 0 THEN 0
        ELSE (Max(0, 8 * k - total) * 30 * Scale) \div (8 * k)

\* (negative_count / len(recent_logs)) * 20
SentimentFactor(rows) ==
    LET n == Cardinality(rows)
        negative_count == Cardinality({r \in rows : r.ai_sentiment = "NEGATIVE"})
    IN  (negative_count * 20 * Scale) \div n

\* [log for log in recent_logs if log.vocal_tension]
TensionLogs(rows) == {r \in rows : Truthy(r.vocal_tension)}

\* (avg_tension / 100) * 10 over the tension logs
TensionFactor(rows) ==
    LET t == Cardinality(TensionLogs(rows))
        total == SumField(TensionLogs(rows), "vocal_tension")
    IN  (total * Scale) \div (10 * t)

\* The body of calculate_burnout_risk on the rows its query returned: the
\* exception it raises, or "none" and the score (times Scale).
\*   sum(mood_scores) with a None among them raises TypeError;
\*   tension_factor is assigned only inside `if tension_logs:`, so the sum on
\*   the next line raises UnboundLocalError when no row has a tension.
BurnoutOf(rows) ==
    IF rows = {} THEN [exc |-> "none", score |-> 0]
    ELSE IF \E r \in rows : r.mood_score = Null
    THEN [exc |-> "TypeError", score |-> 0]
    ELSE IF TensionLogs(rows) = {}
    THEN [exc |-> "UnboundLocalError", score |-> 0]
    ELSE [exc |-> "none",
          score |-> Min(100 * Scale,
                        MoodFactor(rows) + SleepFactor(rows)
                          + SentimentFactor(rows) + TensionFactor(rows))]

calculate_burnout_risk(u) == BurnoutOf(RecentLogs(u))

(***************************************************************************)
(* analytics_service.get_user_analytics                                    *)
(***************************************************************************)
MonthDays == 30
DefaultMood == 5

MonthlyLogs(u) ==
    {r \in daily_logs : r.user_id = u /\ r.log_date >= today - MonthDays}

\* The exception raised, or "none" and the analytics dict (averages times
\* Scale).  sum(log.mood_score for log in weekly_logs) raises TypeError when a
\* row of the week has no mood.
get_user_analytics(u) ==
    LET today_log == LogsFor(u, today)
        weekly_logs == RecentLogs(u)
        sleep_logs == SleepLogs(MonthlyLogs(u))
    IN  IF \E r \in weekly_logs : r.mood_score = Null
        THEN {[exc |-> "TypeError", ret |-> NoRet]}
        ELSE {[exc |-> "none",
               ret |-> [score |-> 0,
                        current_mood |-> cm,
                        weekly_mood_avg |->
                            IF weekly_logs = {} THEN 0
                            ELSE (SumField(weekly_logs, "mood_score") * Scale)
                                   \div Cardinality(weekly_logs),
                        total_journals |->
                            Cardinality({r \in weekly_logs : r.journal_text # NullStr}),
                        sleep_avg |->
                            IF sleep_logs = {} THEN 0
                            ELSE (SumField(sleep_logs, "sleep_hours") * Scale)
                                   \div Cardinality(sleep_logs),
                        assessment_completed |->
                            \E b \in health_baseline : b.user_id = u]]
                : cm \in IF today_log = {} THEN {DefaultMood}
                         ELSE {r.mood_score : r \in today_log}}

(***************************************************************************)
(* analytics_service.get_weekly_report                                     *)
(***************************************************************************)
BURNOUT_THRESHOLDS ==
    [low |-> [max_score |-> 30], medium |-> [max_score |-> 60],
     high |-> [max_score |-> 100]]

MoodSummaryStrict(weekly_avg) ==
    IF weekly_avg > 8 * Scale
    THEN [level |-> "Excellent", message |-> "You've been feeling great this week!"]
    ELSE IF weekly_avg > 6 * Scale
    THEN [level |-> "Good", message |-> "You've maintained a positive mood this week."]
    ELSE IF weekly_avg > 4 * Scale
    THEN [level |-> "Fair",
          message |-> "There's room for improvement, but you're doing okay."]
    ELSE [level |-> "Concerning",
          message |-> "Consider reaching out for additional support."]

\* weekly_avg times Scale
MoodSummary(weekly_avg) ==
    IF weekly_avg >= 8 * Scale
    THEN [level |-> "Excellent", message |-> "You've been feeling great this week!"]
    ELSE IF weekly_avg >= 6 * Scale
    THEN [level |-> "Good", message |-> "You've maintained a positive mood this week."]
    ELSE IF weekly_avg >= 4 * Scale
    THEN [level |-> "Fair",
          message |-> "There's room for improvement, but you're doing okay."]
    ELSE [level |-> "Concerning",
          message |-> "Consider reaching out for additional support."]

Achievements(total_journals) ==
    IF total_journals >= 5 THEN <<"Consistent journaling habit">>
    ELSE IF total_journals >= 3 THEN <<"Regular reflection practice">>
    ELSE <<>>

\* burnout_score and weekly_avg times Scale
Recommendations(burnout_score, weekly_avg) ==
    (IF burnout_score > BURNOUT_THRESHOLDS.medium.max_score * Scale
     THEN <<"Consider taking a break and practicing self-care">>
     ELSE IF burnout_score > BURNOUT_THRESHOLDS.low.max_score * Scale
     THEN <<"Monitor your stress levels and ensure adequate rest">>
     ELSE <<>>)
    \o (IF weekly_avg < 5 * Scale
        THEN <<"Try incorporating daily mindfulness or exercise">>
        ELSE <<>>)

\* The exception get_user_analytics or calculate_burnout_risk raised, or
\* "none" and the report.
get_weekly_report(u) ==
    {IF analytics.exc # "none" THEN [exc |-> analytics.exc, ret |-> NoRet]
     ELSE LET burnout == calculate_burnout_risk(u)
          IN  IF burnout.exc # "none" THEN [exc |-> burnout.exc, ret |-> NoRet]
              ELSE [exc |-> "none",
                    ret |-> [period |-> "Last 7 days",
                             mood_summary |-> MoodSummary(analytics.ret.weekly_mood_avg),
                             achievements |-> Achievements(analytics.ret.total_journals),
                             recommendations |->
                                 Recommendations(burnout.score,
                                                 analytics.ret.weekly_mood_avg)]]
        : analytics \in get_user_analytics(u)}

(***************************************************************************)
(* Clinical assessment: severity tables and _process_assessment            *)
(***************************************************************************)
COLORS ==
    [accent_teal |-> "#80CBC4", error_red |-> "#EF5350",
     warning_orange |-> "#FFA726", success_green |-> "#66BB6A"]

\* The dicts in declaration order; the key (min, max) is held in the entry.
PHQ9_SEVERITY ==
    << [min |-> 0,  max |-> 4,  level |-> "Minimal",
        color |-> COLORS.success_green,
        recommendation |-> "Continue maintaining your mental wellness routine."],
       [min |-> 5,  max |-> 9,  level |-> "Mild",
        color |-> COLORS.accent_teal,
        recommendation |-> "Consider daily mindfulness exercises and monitor your mood."],
       [min |-> 10, max |-> 14, level |-> "Moderate",
        color |-> COLORS.warning_orange,
        recommendation |-> "Professional consultation recommended. Practice stress-reduction techniques."],
       [min |-> 15, max |-> 19, level |-> "Moderately Severe",
        color |-> COLORS.warning_orange,
        recommendation |-> "Strongly consider speaking with a mental health professional."],
       [min |-> 20, max |-> 27, level |-> "Severe",
        color |-> COLORS.error_red,
        recommendation |-> "Please seek professional help. Contact a mental health provider."] >>

GAD7_SEVERITY ==
    << [min |-> 0,  max |-> 4,  level |-> "Minimal",
        color |-> COLORS.success_green,
        recommendation |-> "Your anxiety levels are within normal range. Keep up healthy habits."],
       [min |-> 5,  max |-> 9,  level |-> "Mild",
        color |-> COLORS.accent_teal,
        recommendation |-> "Practice breathing exercises and consider journaling your thoughts."],
       [min |-> 10, max |-> 14, level |-> "Moderate",
        color |-> COLORS.warning_orange,
        recommendation |-> "Consider speaking with a counselor. Implement daily relaxation techniques."],
       [min |-> 15, max |-> 21, level |-> "Severe",
        color |-> COLORS.error_red,
        recommendation |-> "Professional support is recommended. Please consult a mental health provider."] >>

GetSeverityLevelExclusive(score, severity_dict) ==
    LET hits == {i \in 1..Len(severity_dict) :
                    severity_dict[i].min < score /\ score <= severity_dict[i].max}
    IN  IF hits = {} THEN severity_dict[Len(severity_dict)]
        ELSE severity_dict[CHOOSE i \in hits : \A j \in hits : i <= j]

\* The first range, in declaration order, that holds the score; the last
\* entry when none does.
_get_severity_level(score, severity_dict) ==
    LET hits == {i \in 1..Len(severity_dict) :
                    severity_dict[i].min <= score /\ score <= severity_dict[i].max}
    IN  IF hits = {} THEN severity_dict[Len(severity_dict)]
        ELSE severity_dict[CHOOSE i \in hits : \A j \in hits : i <= j]

NumPHQ9 == 9
NumGAD7 == 7
\* st.session_state.assessment_data as the radio widgets leave it at submit:
\* every PHQ-9 question answered with option a of PHQ9_OPTIONS (0..3) and
\* every GAD-7 question with option 3 - a.
AnswerOptions == {1, 2}
AnswerSheets ==
    {[phq9 |-> [q \in 1..NumPHQ9 |-> a], gad7 |-> [q \in 1..NumGAD7 |-> 3 - a]]
        : a \in AnswerOptions}

RECURSIVE SumValues(_, _)
SumValues(f, n) == IF n = 0 THEN 0 ELSE f[n] + SumValues(f, n - 1)

BaselinesFor(u) == {b \in health_baseline : b.user_id = u}

HealthBaseline(u, phq9_score, gad7_score) ==
    [user_id |-> u,
     phq9_score |-> phq9_score,
     phq9_severity |-> _get_severity_level(phq9_score, PHQ9_SEVERITY).level,
     gad7_score |-> gad7_score,
     gad7_severity |-> _get_severity_level(gad7_score, GAD7_SEVERITY).level,
     updated |-> FALSE]      \* updated_at (onupdate) differs from created_at

ProcessAssessmentKeepSeverity(u, phq9, gad7) ==
    LET new == HealthBaseline(u, SumValues(phq9, NumPHQ9), SumValues(gad7, NumGAD7))
    IN  IF BaselinesFor(u) # {}
        THEN {(health_baseline \ {b})
                \cup {[b EXCEPT !.phq9_score = new.phq9_score,
                                !.gad7_score = new.gad7_score,
                                !.updated = TRUE]}
                : b \in BaselinesFor(u)}
        ELSE {health_baseline \cup {new}}

\* The table after _process_assessment saved the totals of the responses.
_process_assessment(u, phq9, gad7) ==
    LET new == HealthBaseline(u, SumValues(phq9, NumPHQ9), SumValues(gad7, NumGAD7))
    IN  IF BaselinesFor(u) # {}
        THEN {(health_baseline \ {b})
                \cup {[b EXCEPT !.phq9_score = new.phq9_score,
                                !.phq9_severity = new.phq9_severity,
                                !.gad7_score = new.gad7_score,
                                !.gad7_severity = new.gad7_severity,
                                !.updated = TRUE]}
                : b \in BaselinesFor(u)}
        ELSE {health_baseline \cup {new}}

(***************************************************************************)
(* Onboarding: the wizard's data and _save_profile                         *)
(***************************************************************************)
TOTAL_STEPS == 4
Step1Data == [age |-> 25, profession |-> 0]
Step2Data == [sleep_hours |-> 7, sleep_quality |-> 3]
Step3Data == [health_goals |-> 1]
EmptyData == [k \in {} |-> 0]

\* dict.update: the keys of `new` added to or overwritten in `data`
Merge(data, new) ==
    [k \in DOMAIN data \cup DOMAIN new |-> IF k \in DOMAIN new THEN new[k] ELSE data[k]]

\* data.get(key): None when the key is missing
Get(data, k) == IF k \in DOMAIN data THEN data[k] ELSE Null

ProfilesFor(u) == {p \in user_profiles : p.user_id = u}

UserProfile(u, data) ==
    [user_id |-> u,
     age |-> Get(data, "age"),
     profession |-> Get(data, "profession"),
     sleep_hours |-> Get(data, "sleep_hours"),
     sleep_quality |-> Get(data, "sleep_quality"),
     health_goals |-> Get(data, "health_goals")]

_save_profile(u, data) ==
    IF ProfilesFor(u) # {}
    THEN {(user_profiles \ {p}) \cup {UserProfile(u, data)} : p \in ProfilesFor(u)}
    ELSE {user_profiles \cup {UserProfile(u, data)}}

(***************************************************************************)
(* auth_service                                                            *)
(***************************************************************************)
NoUser == 0

has_completed_onboarding(u) ==
    \E p \in ProfilesFor(u) : p.age # Null

has_completed_assessment(u) ==
    \E b \in BaselinesFor(u) : b.phq9_score # Null

DeleteUserKeepLogs(u) ==
    [users |-> users \ {u},
     user_profiles |-> user_profiles \ ProfilesFor(u),
     health_baseline |-> health_baseline \ BaselinesFor(u),
     daily_logs |-> daily_logs]

\* session.delete(user): the relationships' cascade="all, delete-orphan"
\* deletes the user's profile, baseline and daily logs with it.
delete_user_account(u) ==
    [users |-> users \ {u},
     user_profiles |-> user_profiles \ ProfilesFor(u),
     health_baseline |-> health_baseline \ BaselinesFor(u),
     daily_logs |-> {r \in daily_logs : r.user_id # u}]

(***************************************************************************)
(* The state after construction: empty tables, init_session_state().       *)
(***************************************************************************)
Init ==
    /\ users = {}
    /\ user_profiles = {}
    /\ health_baseline = {}
    /\ daily_logs = {}
    /\ today = 0
    /\ user_id = NoUser
    /\ page = "auth"
    /\ onboarding_step = 1
    /\ onboarding_data = EmptyData
    /\ show_assessment_results = FALSE
    /\ current_page = NullStr
    /\ outcome = Idle
    /\ cache_resource = EmptyCache
    /\ threads = NoThreads

(***************************************************************************)
(* pages/auth.py                                                           *)
(***************************************************************************)
\* Sign Up with a free username: create_user, set_user, set_page("onboarding")
SignUp(u) ==
    /\ page = "auth"
    /\ u \notin users
    /\ users' = users \cup {u}
    /\ user_id' = u
    /\ page' = "onboarding"
    /\ outcome' = Idle
    /\ UNCHANGED <<user_profiles, health_baseline, daily_logs, today, process_vars,
                   onboarding_step, onboarding_data, show_assessment_results,
                   current_page>>

\* what authenticate_user returned: success and the user id (None as NoUser)
Authenticated(success, u) == [success |-> success, user_id |-> u]

\* a login that sends everyone to the dashboard
LoginToDashboard(u) ==
    /\ page = "auth"
    /\ u \in users
    /\ user_id' = u
    /\ page' = "dashboard"
    /\ outcome' = Called("authenticate_user", u, "none", Authenticated(TRUE, u))
    /\ UNCHANGED <<db_vars, today, process_vars, onboarding_step, onboarding_data,
                   show_assessment_results,
                   current_page>>

\* Login with the right password
Login(u) ==
    /\ page = "auth"
    /\ u \in users
    /\ user_id' = u
    /\ page' = IF ~has_completed_onboarding(u) THEN "onboarding"
               ELSE IF ~has_completed_assessment(u) THEN "clinical"
               ELSE "dashboard"
    /\ outcome' = Called("authenticate_user", u, "none", Authenticated(TRUE, u))
    /\ UNCHANGED <<db_vars, today, process_vars, onboarding_step, onboarding_data,
                   show_assessment_results,
                   current_page>>

\* Login with an unknown username or a wrong password: st.error(message)
LoginFailed(u) ==
    /\ page = "auth"
    /\ outcome' = Called("authenticate_user", u, "none", Authenticated(FALSE, NoUser))
    /\ UNCHANGED <<db_vars, today, process_vars, session_vars>>

\* session_manager.logout
Logout ==
    /\ user_id # NoUser
    /\ user_id' = NoUser
    /\ page' = "auth"
    /\ onboarding_step' = 1
    /\ onboarding_data' = EmptyData
    /\ show_assessment_results' = FALSE
    /\ outcome' = Idle
    /\ UNCHANGED <<db_vars, today, process_vars,
                   current_page>>

\* delete_user_account has no caller in the repository: the model calls it
\* for an account other than the one this session is logged in to.
DeleteUserAccount(u) ==
    /\ u \in users
    /\ u # user_id
    /\ LET db == delete_user_account(u)
       IN  /\ users' = db.users
           /\ user_profiles' = db.user_profiles
           /\ health_baseline' = db.health_baseline
           /\ daily_logs' = db.daily_logs
    /\ outcome' = Called("delete_user_account", u, "none", NoRet)
    /\ UNCHANGED <<today, process_vars, session_vars>>

(***************************************************************************)
(* pages/onboarding.py: the four-step wizard                               *)
(***************************************************************************)
OnOnboarding == page = "onboarding" /\ user_id # NoUser

WizardNext(step, data) ==
    /\ OnOnboarding
    /\ onboarding_step = step
    /\ onboarding_data' = Merge(onboarding_data, data)
    /\ onboarding_step' = step + 1
    /\ outcome' = Idle
    /\ UNCHANGED <<db_vars, today, process_vars, user_id, page, show_assessment_results,
                   current_page>>

WizardBackToStart(step) ==
    /\ OnOnboarding
    /\ onboarding_step = step
    /\ onboarding_step' = 1
    /\ outcome' = Idle
    /\ UNCHANGED <<db_vars, today, process_vars, user_id, page, onboarding_data,
                   show_assessment_results,
                   current_page>>

WizardBack(step) ==
    /\ OnOnboarding
    /\ onboarding_step = step
    /\ onboarding_step' = step - 1
    /\ outcome' = Idle
    /\ UNCHANGED <<db_vars, today, process_vars, user_id, page, onboarding_data,
                   show_assessment_results,
                   current_page>>

Step1Next == WizardNext(1, Step1Data)
Step2Next == WizardNext(2, Step2Data)
Step3Next == WizardNext(3, Step3Data)
Step2Back == WizardBack(2)
Step3Back == WizardBack(3)
Step4Back == WizardBack(4)

\* "Complete Setup" on the review step
CompleteSetup ==
    /\ OnOnboarding
    /\ onboarding_step = TOTAL_STEPS
    /\ user_profiles' \in _save_profile(user_id, onboarding_data)
    /\ onboarding_step' = 1
    /\ onboarding_data' = EmptyData
    /\ page' = "clinical"
    /\ outcome' = Idle
    /\ UNCHANGED <<users, health_baseline, daily_logs, today, process_vars, user_id,
                   show_assessment_results,
                   current_page>>

(***************************************************************************)
(* pages/clinical_assessment.py                                            *)
(***************************************************************************)
OnClinical == page = "clinical" /\ user_id # NoUser

SubmitAssessment(assessment_data) ==
    /\ OnClinical
    /\ ~show_assessment_results
    /\ health_baseline' \in _process_assessment(user_id, assessment_data.phq9,
                                                 assessment_data.gad7)
    /\ show_assessment_results' = TRUE
    /\ outcome' = Idle
    /\ UNCHANGED <<users, user_profiles, daily_logs, today, process_vars, user_id, page,
                   onboarding_step, onboarding_data,
                   current_page>>

\* "Continue to Dashboard" on the results view
ContinueToDashboard ==
    /\ OnClinical
    /\ show_assessment_results
    /\ show_assessment_results' = FALSE
    /\ page' = "dashboard"
    /\ outcome' = Idle
    /\ UNCHANGED <<db_vars, today, process_vars, user_id, onboarding_step, onboarding_data,
                   current_page>>

(***************************************************************************)
(* pages/dashboard.py                                                      *)
(***************************************************************************)
OnDashboard == page = "dashboard" /\ user_id # NoUser

\* The model holds at most MaxLogs rows: a save that would add one more is
\* not taken.
RoomFor(u) == LogsFor(u, today) # {} \/ Cardinality(daily_logs) < MaxLogs

SaveOutcome(op, exc) == IF exc = "none" THEN Idle ELSE Called(op, 0, exc, NoRet)

\* "Update Mood": save_mood_entry(user_id, date.today(), mood_value)
UpdateMood(mood) ==
    /\ OnDashboard
    /\ RoomFor(user_id)
    /\ \E res \in save_mood_entry(user_id, today, mood) :
          /\ daily_logs' = res.logs
          /\ outcome' = SaveOutcome("save_mood_entry", res.exc)
    /\ UNCHANGED <<users, user_profiles, health_baseline, today, process_vars, session_vars>>

\* "Save Journal Entry" with a non-blank text
SaveJournal(text) ==
    /\ OnDashboard
    /\ RoomFor(user_id)
    /\ \E res \in save_journal_entry(user_id, text) :
          /\ daily_logs' = res.logs
          /\ outcome' = SaveOutcome("save_journal_entry", res.exc)
    /\ UNCHANGED <<users, user_profiles, health_baseline, today, process_vars, session_vars>>

\* A recording whose analysis succeeded with this tension score
SaveVoice(tension_score) ==
    /\ OnDashboard
    /\ \E res \in save_voice_analysis(user_id, tension_score) :
          /\ daily_logs' = res.logs
          /\ outcome' = Called("save_voice_analysis", tension_score, res.exc, NoRet)
    /\ UNCHANGED <<users, user_profiles, health_baseline, today, process_vars, session_vars>>

GetUserAnalytics ==
    /\ OnDashboard
    /\ \E res \in get_user_analytics(user_id) :
          outcome' = Called("get_user_analytics", user_id, res.exc, res.ret)
    /\ UNCHANGED <<db_vars, today, process_vars, session_vars>>

CalculateBurnoutRisk ==
    /\ OnDashboard
    /\ LET res == calculate_burnout_risk(user_id)
       IN  outcome' = Called("calculate_burnout_risk", user_id, res.exc,
                             [NoRet EXCEPT !.score = res.score])
    /\ UNCHANGED <<db_vars, today, process_vars, session_vars>>

\* Midnight: date.today() moves on
GetWeeklyReport ==
    /\ OnDashboard
    /\ \E res \in get_weekly_report(user_id) :
          outcome' = Called("get_weekly_report", user_id, res.exc, res.ret)
    /\ UNCHANGED <<db_vars, today, process_vars, session_vars>>

NextDay ==
    /\ today < MaxDay
    /\ today' = today + 1
    /\ outcome' = Idle
    /\ UNCHANGED <<db_vars, process_vars, session_vars>>

Next ==
    \/ \E u \in UserIds : SignUp(u)
    \/ \E u \in UserIds : Login(u)
    \/ \E u \in UserIds : LoginFailed(u)
    \/ Logout
    \/ \E u \in UserIds : DeleteUserAccount(u)
    \/ Step1Next
    \/ Step2Next
    \/ Step3Next
    \/ Step2Back
    \/ Step3Back
    \/ Step4Back
    \/ CompleteSetup
    \/ \E sheet \in AnswerSheets : SubmitAssessment(sheet)
    \/ ContinueToDashboard
    \/ \E mood \in MoodValues : UpdateMood(mood)
    \/ \E text \in JournalTexts : SaveJournal(text)
    \/ \E t \in TensionValues : SaveVoice(t)
    \/ GetUserAnalytics
    \/ CalculateBurnoutRisk
    \/ NextDay

Spec == Init /\ [][Next]_vars

(***************************************************************************)
(* calculate_burnout_risk and get_user_analytics as functions of the       *)
(* table: the table is drawn from a bounded set of tables the schema       *)
(* allows, and the two calls are applied to it for user 1.                 *)
(***************************************************************************)
MaxRows == 2                 \* rows of user 1 in a sparse table
BurnoutToday == WindowDays + 1
SampleDates == {BurnoutToday - WindowDays - 1, BurnoutToday - WindowDays,
                BurnoutToday - WindowDays + 1, BurnoutToday}
SampleMoods == {Null, 2, 10}
SampleSleep == {Null, 0, 4}
SampleSentiments == {NullStr, "NEGATIVE"}
SampleTensions == {Null, 0, 60}
Templates ==
    [mood_score : SampleMoods, sleep_hours : SampleSleep,
     ai_sentiment : SampleSentiments, vocal_tension : SampleTensions]

SampleRow(u, d, t) ==
    [user_id |-> u, log_date |-> d, mood_score |-> t.mood_score,
     journal_text |-> IF t.ai_sentiment = NullStr THEN NullStr ELSE "i feel sad",
     ai_sentiment |-> t.ai_sentiment,
     ai_emotion |-> IF t.ai_sentiment = NullStr THEN NullStr ELSE "sadness",
     vocal_tension |-> t.vocal_tension, sleep_hours |-> t.sleep_hours]

\* A row of another user, in the window, in every table.
OtherUserRow ==
    SampleRow(2, BurnoutToday,
              [mood_score |-> 2, sleep_hours |-> 4, ai_sentiment |-> "NEGATIVE",
               vocal_tension |-> 60])

\* Seven rows, today-6 .. today, all alike.
UniformWeeks ==
    {{SampleRow(1, d, t) : d \in (BurnoutToday - 6)..BurnoutToday} : t \in Templates}

\* At most MaxRows rows on the sample dates.
SparseTables ==
    {{SampleRow(1, d, f[d]) : d \in DOMAIN f}
        : f \in UNION {[D -> Templates]
                         : D \in {D \in SUBSET SampleDates : Cardinality(D) <= MaxRows}}}

\* Journal entries with a voice recording on each of the last k days, j of
\* them in the best mood and the rest in a low one.
ReportWeeks ==
    {{SampleRow(1, BurnoutToday - i,
                [mood_score |-> IF i < j THEN 10 ELSE 2, sleep_hours |-> Null,
                 ai_sentiment |-> "NEGATIVE", vocal_tension |-> 60])
        : i \in 0..(k - 1)}
      : k \in 3..5, j \in 0..5}

FullData == Merge(Merge(Step1Data, Step2Data), Step3Data)

InitBurnout ==
    /\ users = UserIds
    /\ user_profiles = {UserProfile(u, FullData) : u \in UserIds}
    /\ health_baseline = {HealthBaseline(u, 0, 0) : u \in UserIds}
    /\ daily_logs \in {t \cup {OtherUserRow}
                          : t \in UniformWeeks \cup SparseTables \cup ReportWeeks}
    /\ today = BurnoutToday
    /\ user_id = 1
    /\ page = "dashboard"
    /\ onboarding_step = 1
    /\ onboarding_data = EmptyData
    /\ show_assessment_results = FALSE
    /\ current_page = NullStr
    /\ outcome = Idle
    /\ cache_resource = EmptyCache
    /\ threads = NoThreads

NextBurnout ==
    \/ CalculateBurnoutRisk
    \/ GetUserAnalytics
    \/ GetWeeklyReport

SpecBurnout == InitBurnout /\ [][NextBurnout]_vars

(***************************************************************************)
(* _process_assessment as a function of the table: called again and again, *)
(* each time from the assessment form of a session of either user, with    *)
(* every PHQ-9 question answered a and every GAD-7 question answered b.    *)
(***************************************************************************)
WideAnswerSheets ==
    {[phq9 |-> [q \in 1..NumPHQ9 |-> a], gad7 |-> [q \in 1..NumGAD7 |-> b]]
        : a \in 0..3, b \in 0..3}

InitAssessment ==
    /\ users = UserIds
    /\ user_profiles = {UserProfile(u, FullData) : u \in UserIds}
    /\ health_baseline = {}
    /\ daily_logs = {}
    /\ today = 0
    /\ user_id \in UserIds
    /\ page = "clinical"
    /\ onboarding_step = 1
    /\ onboarding_data = EmptyData
    /\ show_assessment_results = FALSE
    /\ current_page = NullStr
    /\ outcome = Idle
    /\ cache_resource = EmptyCache
    /\ threads = NoThreads

ProcessAssessment(u, assessment_data) ==
    /\ u \in users
    /\ user_id' = u
    /\ health_baseline' \in _process_assessment(u, assessment_data.phq9,
                                                 assessment_data.gad7)
    /\ show_assessment_results' = TRUE
    /\ outcome' = Called("_process_assessment", u, "none", NoRet)
    /\ UNCHANGED <<users, user_profiles, daily_logs, today, process_vars, page,
                   onboarding_step, onboarding_data,
                   current_page>>

NextAssessment ==
    \E u \in UserIds, sheet \in WideAnswerSheets : ProcessAssessment(u, sheet)

SpecAssessment == InitAssessment /\ [][NextAssessment]_vars

(***************************************************************************)
(* Properties                                                              *)
(***************************************************************************)
UserRowsBetween(u, lo, hi) ==
    {r \in daily_logs : r.user_id = u /\ lo <= r.log_date /\ r.log_date <= hi}

\* C1: at most one daily_logs row per (user_id, log_date), and no save is
\* rejected by the unique constraint: a save for a key that has a row updates
\* that row.
C1_OneLogPerUserDate ==
    /\ \A r1, r2 \in daily_logs :
          (r1.user_id = r2.user_id /\ r1.log_date = r2.log_date) => r1 = r2
    /\ outcome.exc # "IntegrityError"

\* A row that a mood save, a journal save and a voice save all wrote, beside
\* a row of the same user for another date.
C1_Witness ==
    \E r1, r2 \in daily_logs :
        /\ r1.mood_score # Null /\ r1.journal_text # NullStr /\ r1.vocal_tension # Null
        /\ r2.user_id = r1.user_id /\ r2.log_date # r1.log_date

\* C2: calculate_burnout_risk and get_user_analytics return a value, never
\* raise, on every table the saves can produce.
C2_AnalyticsNeverRaise ==
    outcome.op \in {"calculate_burnout_risk", "get_user_analytics"}
        => outcome.exc = "none"

\* C3: with a non-empty window whose rows all have a mood and none a tension,
\* calculate_burnout_risk returns mood factor + sleep factor + sentiment
\* factor (tension factor 0).
C3_NoTensionGivesZeroFactor ==
    LET rows == RecentLogs(user_id)
    IN  (/\ outcome.op = "calculate_burnout_risk"
         /\ rows # {}
         /\ \A r \in rows : r.mood_score # Null /\ r.vocal_tension = Null)
        => /\ outcome.exc = "none"
           /\ outcome.ret.score =
                Min(100 * Scale,
                    MoodFactor(rows) + SleepFactor(rows) + SentimentFactor(rows))

StatedSleepFactor(rows) ==
    LET logs == {r \in rows : r.sleep_hours # Null}
        k == Cardinality(logs)
    IN  IF k = 0 THEN 0
        ELSE (Max(0, 8 * k - SumField(logs, "sleep_hours")) * 30 * Scale) \div (8 * k)

StatedTensionFactor(rows) ==
    LET logs == {r \in rows : r.vocal_tension # Null}
        t == Cardinality(logs)
    IN  IF t = 0 THEN 0
        ELSE (SumField(logs, "vocal_tension") * Scale) \div (10 * t)

StatedMoodFactor(rows) ==
    (Max(0, 6 * Cardinality(rows) - SumField(rows, "mood_score")) * 8 * Scale)
        \div Cardinality(rows)

StatedSentimentFactor(rows) ==
    (Cardinality({r \in rows : r.ai_sentiment = "NEGATIVE"}) * 20 * Scale)
        \div Cardinality(rows)

\* C5: for a non-empty window whose rows all have a mood, the score is the
\* sum of the four factors clamped to [0, 100].
C5_ScoreIsClampedSum ==
    LET rows == RecentLogs(user_id)
    IN  (/\ outcome.op = "calculate_burnout_risk"
         /\ rows # {}
         /\ \A r \in rows : r.mood_score # Null)
        => /\ outcome.exc = "none"
           /\ 0 <= outcome.ret.score /\ outcome.ret.score <= 100 * Scale
           /\ outcome.ret.score =
                Max(0, Min(100 * Scale,
                           StatedMoodFactor(rows) + StatedSleepFactor(rows)
                             + StatedSentimentFactor(rows)
                             + StatedTensionFactor(rows)))

\* The moods a row may be given when the window's moods are varied.
AltMoods == {1, 5, 6, 10}

WithMoods(rows, g) == {[r EXCEPT !.mood_score = g[r]] : r \in rows}

\* C6: whenever the moods of the window's rows are replaced by moods of no
\* higher average, all else equal, calculate_burnout_risk gives no lower a
\* score (and raises exactly when it raised before).
C6_MonotoneInMood ==
    LET rows == RecentLogs(user_id)
    IN  (/\ outcome.op = "calculate_burnout_risk"
         /\ \A r \in rows : r.mood_score # Null)
        => \A g \in [rows -> AltMoods] :
              SumField(WithMoods(rows, g), "mood_score") <= SumField(rows, "mood_score")
              => /\ BurnoutOf(WithMoods(rows, g)).exc = outcome.exc
                 /\ BurnoutOf(WithMoods(rows, g)).score >= outcome.ret.score

\* A scored window of two rows or more for which some lower moods give a
\* strictly higher score.
C6_Witness ==
    LET rows == RecentLogs(user_id)
    IN  /\ outcome.op = "calculate_burnout_risk"
        /\ outcome.exc = "none"
        /\ Cardinality(rows) >= 2
        /\ \E g \in [rows -> AltMoods] :
              /\ SumField(WithMoods(rows, g), "mood_score") < SumField(rows, "mood_score")
              /\ BurnoutOf(WithMoods(rows, g)).score > outcome.ret.score

\* C7: the rows calculate_burnout_risk aggregates are the user's rows dated
\* today-6 .. today, so its result is the score of those rows.
C7_WindowIsSevenDays ==
    LET week == UserRowsBetween(user_id, today - 6, today)
    IN  outcome.op = "calculate_burnout_risk"
        => /\ RecentLogs(user_id) = week
           /\ outcome.exc = BurnoutOf(week).exc
           /\ outcome.ret.score = BurnoutOf(week).score

\* C8: after save_voice_analysis a row for (user, today) exists and holds the
\* analysed tension score.
C8_VoiceSaveStoresTension ==
    outcome.op = "save_voice_analysis"
        => \E r \in LogsFor(user_id, today) : r.vocal_tension = outcome.arg

\* C9: a step removes the daily_logs row of a (user, date) only if it deletes
\* that user, and a step that deletes a user removes all of that user's daily
\* logs, profile and baseline and leaves every other user's rows as they were.
C9_Step ==
    /\ \A r \in daily_logs :
          (\A q \in daily_logs' : q.user_id # r.user_id \/ q.log_date # r.log_date)
          => (r.user_id \in users /\ r.user_id \notin users')
    /\ \A u \in UserIds :
          (u \in users /\ u \notin users')
          => /\ \A r \in daily_logs' : r.user_id # u
             /\ \A p \in user_profiles' : p.user_id # u
             /\ \A b \in health_baseline' : b.user_id # u
             /\ {r \in daily_logs' : r.user_id # u} = {r \in daily_logs : r.user_id # u}
             /\ {p \in user_profiles' : p.user_id # u}
                  = {p \in user_profiles : p.user_id # u}
             /\ {b \in health_baseline' : b.user_id # u}
                  = {b \in health_baseline : b.user_id # u}

C9_LogsDeletedOnlyWithOwner == [][C9_Step]_vars

\* delete_user_account has just removed a user: nothing of that user is left,
\* and the other user's daily log, profile and baseline are in place.
C9_Witness ==
    /\ outcome.op = "delete_user_account"
    /\ outcome.arg \notin users
    /\ \A r \in daily_logs : r.user_id # outcome.arg
    /\ \E r \in daily_logs : r.user_id \in users
    /\ \E p \in user_profiles : p.user_id \in users
    /\ \E b \in health_baseline : b.user_id \in users

\* The level of the range of the severity table that holds the score.
InBracket(table, score, level) ==
    \E i \in 1..Len(table) :
        table[i].min <= score /\ score <= table[i].max /\ table[i].level = level

C10_Inv ==
    /\ \A u \in UserIds : Cardinality(BaselinesFor(u)) <= 1
    /\ \A b \in health_baseline :
          /\ InBracket(PHQ9_SEVERITY, b.phq9_score, b.phq9_severity)
          /\ InBracket(GAD7_SEVERITY, b.gad7_score, b.gad7_severity)

C10_Step ==
    \A u \in UserIds, sheet \in WideAnswerSheets :
        ProcessAssessment(u, sheet)
        => \E b \in health_baseline' :
              /\ BaselinesFor(u)' = {b}
              /\ b.phq9_score = SumValues(sheet.phq9, NumPHQ9)
              /\ b.gad7_score = SumValues(sheet.gad7, NumGAD7)
              /\ InBracket(PHQ9_SEVERITY, b.phq9_score, b.phq9_severity)
              /\ InBracket(GAD7_SEVERITY, b.gad7_score, b.gad7_severity)

\* C10: each user has at most one health_baseline row, every stored severity
\* is the level of the bracket of the stored score, and after a submission
\* the user's row holds the totals and levels of that submission.
C10_BaselineIsLatestSubmission == [](C10_Inv) /\ [][C10_Step]_vars

\* An overwritten row (updated_at moved) holding PHQ-9 27 / Severe and
\* GAD-7 7 / Mild.
C10_Witness ==
    \E b \in health_baseline :
        /\ b.updated
        /\ outcome.op = "_process_assessment" /\ outcome.arg = b.user_id
        /\ b.phq9_score = 27 /\ b.phq9_severity = "Severe"
        /\ b.gad7_score = 7 /\ b.gad7_severity = "Mild"


(***************************************************************************)
(* voice_service.  Feature values are integers in the unit in which the    *)
(* code's thresholds are whole numbers: pitch_variability in percent,      *)
(* jitter in 1/1000, shimmer, zero_crossing_rate and rms_energy in 1/100,  *)
(* spectral_centroid in Hz.  A key absent from the features dict is Null.  *)
(* Tension scores are held in tenths (times Tenths).  What librosa does    *)
(* with the samples is outside the program: it either raises or delivers   *)
(* `measured`.                                                             *)
(***************************************************************************)
Tenths == 10
NeutralTension == 50 * Tenths         \* 50.0
SampleBytes == 4                      \* np.float32
ShimmerMinSamples == 1000
MinVoicedFrames == 10

FeatureGet(features, key) == IF features[key] = Null THEN 0 ELSE features[key]

PitchAdd(pitch_var) ==
    IF pitch_var > 20 THEN Min(20 * Tenths, ((pitch_var - 20) * Tenths) \div 2)
    ELSE IF pitch_var < 5 THEN 10 * Tenths
    ELSE 0

JitterAddUncapped(jitter) == IF jitter > 10 THEN jitter * Tenths ELSE 0

JitterAdd(jitter) == IF jitter > 10 THEN Min(15 * Tenths, jitter * Tenths) ELSE 0

ShimmerAdd(shimmer) ==
    IF shimmer > 10 THEN Min(10 * Tenths, (shimmer * Tenths) \div 2) ELSE 0

CentroidAdd(centroid) ==
    IF centroid > 3000 THEN Min(10 * Tenths, ((centroid - 3000) * Tenths) \div 500)
    ELSE 0

ZcrAdd(zcr) == IF zcr > 15 THEN Min(5 * Tenths, (zcr - 15) * Tenths) ELSE 0

\* a quiet voice lowering the score instead of raising it
RmsAddQuietLowers(rms) ==
    IF rms < 5 THEN 0 - 10 * Tenths
    ELSE IF rms > 30 THEN 15 * Tenths
    ELSE 0

RmsAdd(rms) ==
    IF rms < 5 THEN 10 * Tenths
    ELSE IF rms > 30 THEN 15 * Tenths
    ELSE 0

calculate_tension_score(features) ==
    LET score == NeutralTension
                 + PitchAdd(FeatureGet(features, "pitch_variability"))
                 + JitterAdd(FeatureGet(features, "jitter"))
                 + ShimmerAdd(FeatureGet(features, "shimmer"))
                 + CentroidAdd(FeatureGet(features, "spectral_centroid"))
                 + ZcrAdd(FeatureGet(features, "zero_crossing_rate"))
                 + RmsAdd(FeatureGet(features, "rms_energy"))
    IN  Max(0, Min(100 * Tenths, score))

\* the dict of the except branch: every feature 0.0
DefaultFeatures ==
    [pitch_variability |-> 0, jitter |-> 0, shimmer |-> 0,
     spectral_centroid |-> 0, zero_crossing_rate |-> 0, rms_energy |-> 0]

\* voiced is len(f0_voiced), the number of voiced frames pyin found.
\* pitch_variability and jitter are set together (more than 10 voiced
\* frames, or neither); shimmer only for more than 1000 samples.
extract_voice_features(n_samples, voiced, fails, measured) ==
    IF fails THEN DefaultFeatures
    ELSE [measured EXCEPT
            !.pitch_variability = IF voiced > MinVoicedFrames THEN @ ELSE Null,
            !.jitter = IF voiced > MinVoicedFrames THEN @ ELSE Null,
            !.shimmer = IF n_samples > ShimmerMinSamples THEN @ ELSE Null]

VoiceResult(score, features, ok, error) ==
    [tension_score |-> score,
     pitch_variability |-> FeatureGet(features, "pitch_variability"),
     jitter |-> FeatureGet(features, "jitter"),
     shimmer |-> FeatureGet(features, "shimmer"),
     analysis_successful |-> ok,
     error |-> error]

AnalyzeVoiceTensionNoLibraryCheck(audio_data, libraries, voiced, fails, measured) ==
    IF audio_data % SampleBytes # 0
    THEN VoiceResult(NeutralTension, DefaultFeatures, FALSE,
                     "buffer size must be a multiple of element size")
    ELSE IF audio_data \div SampleBytes = 0
    THEN VoiceResult(NeutralTension, DefaultFeatures, FALSE, "Empty audio data")
    ELSE LET features == extract_voice_features(audio_data \div SampleBytes,
                                                voiced, fails, measured)
         IN  VoiceResult(calculate_tension_score(features), features, TRUE, NullStr)

\* audio_data is the number of bytes of the buffer; libraries is what
\* load_voice_libraries returned (TRUE: both modules, FALSE: None, None).
analyze_voice_tension(audio_data, libraries, voiced, fails, measured) ==
    IF ~libraries
    THEN VoiceResult(NeutralTension, DefaultFeatures, FALSE,
                     "Voice analysis libraries not available")
    ELSE IF audio_data % SampleBytes # 0      \* np.frombuffer raises ValueError
    THEN VoiceResult(NeutralTension, DefaultFeatures, FALSE,
                     "buffer size must be a multiple of element size")
    ELSE IF audio_data \div SampleBytes = 0
    THEN VoiceResult(NeutralTension, DefaultFeatures, FALSE, "Empty audio data")
    ELSE LET features == extract_voice_features(audio_data \div SampleBytes,
                                                voiced, fails, measured)
         IN  VoiceResult(calculate_tension_score(features), features, TRUE, NullStr)

\* file is what librosa.load finds: readable or not, and the samples it holds
process_audio_file(file, libraries, voiced, fails, measured) ==
    IF ~libraries
    THEN [tension_score |-> NeutralTension, analysis_successful |-> FALSE,
          error |-> "Voice analysis libraries not available"]
    ELSE IF ~file.readable
    THEN [tension_score |-> NeutralTension, analysis_successful |-> FALSE,
          error |-> "Failed to process audio file: " \o file.error]
    ELSE analyze_voice_tension(file.samples * SampleBytes, libraries, voiced,
                               fails, measured)

VOICE_TENSION_THRESHOLDS ==
    [relaxed |-> [max |-> 30, label |-> "Relaxed"],
     normal |-> [max |-> 50, label |-> "Normal"],
     mild_stress |-> [max |-> 70, label |-> "Mild Stress"],
     high_stress |-> [max |-> 100, label |-> "High Stress"]]

Interpretation(level, message, color) ==
    [level |-> level, label |-> VOICE_TENSION_THRESHOLDS[level].label,
     message |-> message, color |-> color]

GetTensionInterpretationStrict(tension_score) ==
    IF tension_score < VOICE_TENSION_THRESHOLDS.relaxed.max * Tenths
    THEN Interpretation("relaxed", "Your voice sounds relaxed and calm.", "#66BB6A")
    ELSE IF tension_score < VOICE_TENSION_THRESHOLDS.normal.max * Tenths
    THEN Interpretation("normal", "Your voice sounds normal with moderate tension.",
                        "#80CBC4")
    ELSE IF tension_score < VOICE_TENSION_THRESHOLDS.mild_stress.max * Tenths
    THEN Interpretation("mild_stress",
            "Your voice shows signs of mild stress. Consider relaxation techniques.",
            "#FFA726")
    ELSE Interpretation("high_stress",
            "Your voice indicates high stress levels. Please consider professional support.",
            "#EF5350")

\* tension_score in tenths
get_tension_interpretation(tension_score) ==
    IF tension_score <= VOICE_TENSION_THRESHOLDS.relaxed.max * Tenths
    THEN Interpretation("relaxed", "Your voice sounds relaxed and calm.", "#66BB6A")
    ELSE IF tension_score <= VOICE_TENSION_THRESHOLDS.normal.max * Tenths
    THEN Interpretation("normal", "Your voice sounds normal with moderate tension.",
                        "#80CBC4")
    ELSE IF tension_score <= VOICE_TENSION_THRESHOLDS.mild_stress.max * Tenths
    THEN Interpretation("mild_stress",
            "Your voice shows signs of mild stress. Consider relaxation techniques.",
            "#FFA726")
    ELSE Interpretation("high_stress",
            "Your voice indicates high stress levels. Please consider professional support.",
            "#EF5350")

(***************************************************************************)
(* The service functions as functions of their arguments: each action      *)
(* draws an argument (and what the libraries behind the call do) from a    *)
(* bounded set, applies one function and records the call in `outcome`.    *)
(* The functions read nothing but their arguments, so each call is made    *)
(* from the state in which no call has been made yet.                      *)
(***************************************************************************)
NoCallYet == outcome = Idle

MaxAnswer == 3               \* PHQ9_OPTIONS / GAD7_OPTIONS run 0..3

SeverityDicts ==
    [PHQ9_SEVERITY |-> PHQ9_SEVERITY, GAD7_SEVERITY |-> GAD7_SEVERITY]

\* the totals a questionnaire can sum to
Totals(name) ==
    IF name = "PHQ9_SEVERITY" THEN 0..(MaxAnswer * NumPHQ9)
    ELSE 0..(MaxAnswer * NumGAD7)

GetSeverityLevel(name, score) ==
    /\ NoCallYet
    /\ outcome' = Called("_get_severity_level",
                         [score |-> score, severity_dict |-> name], "none",
                         _get_severity_level(score, SeverityDicts[name]))
    /\ UNCHANGED <<db_vars, today, process_vars, session_vars>>

\* C11: every total of a questionnaire lies in exactly one range of its
\* severity table, and _get_severity_level returns the info of that range;
\* PHQ-9 total 12 gives Moderate, warning orange and the moderate
\* recommendation.
C11_SeverityPartition ==
    outcome.op = "_get_severity_level"
    => LET T == outcome.arg.score
           table == SeverityDicts[outcome.arg.severity_dict]
           holding == {i \in 1..Len(table) : table[i].min <= T /\ T <= table[i].max}
       IN  /\ Cardinality(holding) = 1
           /\ \A i \in holding : outcome.ret = table[i]
           /\ (outcome.arg.severity_dict = "PHQ9_SEVERITY" /\ T = 12)
              => /\ outcome.ret.level = "Moderate"
                 /\ outcome.ret.color = "#FFA726"
                 /\ outcome.ret.recommendation =
                      "Professional consultation recommended. Practice stress-reduction techniques."

\* _get_severity_level was called with PHQ-9 total 12.
C11_Witness ==
    /\ outcome.op = "_get_severity_level"
    /\ outcome.arg = [score |-> 12, severity_dict |-> "PHQ9_SEVERITY"]
    /\ outcome.ret.level = "Moderate"

\* buffers: empty, cut inside a sample, one sample, more than 1000 samples
AudioSizes ==
    {0, 3, 4, ShimmerMinSamples * SampleBytes, (ShimmerMinSamples + 2) * SampleBytes}

\* voiced frames found in a recording
VoicedFrames == {MinVoicedFrames - 1, MinVoicedFrames, MinVoicedFrames + 1}

SamplePitch == {Null, 0, 10, 30, 80}
SampleJitter == {5, 12, 40}
SampleShimmer == {5, 14, 40}
SampleCentroid == {1000, 4000, 9000}
SampleZcr == {10, 17, 30}
SampleRms == {2, 10, 50}

Measurements ==
    {[pitch_variability |-> p, jitter |-> IF p = Null THEN Null ELSE j,
      shimmer |-> s, spectral_centroid |-> c, zero_crossing_rate |-> z,
      rms_energy |-> r]
        : p \in SamplePitch, j \in SampleJitter, s \in SampleShimmer,
          c \in SampleCentroid, z \in SampleZcr, r \in SampleRms}

\* a quiet, flat recording
QuietVoice ==
    [pitch_variability |-> 10, jitter |-> 5, shimmer |-> 5,
     spectral_centroid |-> 1000, zero_crossing_rate |-> 10, rms_energy |-> 10]

\* what the libraries do in one call: loaded or not, raising or measuring
LibraryRuns ==
    {[libraries |-> l, voiced |-> v, fails |-> f, measured |-> QuietVoice]
        : l \in BOOLEAN, v \in VoicedFrames, f \in BOOLEAN}
    \cup {[libraries |-> TRUE,
           voiced |-> IF m.pitch_variability = Null THEN MinVoicedFrames
                      ELSE MinVoicedFrames + 1,
           fails |-> FALSE, measured |-> m] : m \in Measurements}

AudioFiles ==
    {[readable |-> FALSE, samples |-> 0, error |-> "No such file"]}
    \cup {[readable |-> TRUE, samples |-> n \div SampleBytes, error |-> NullStr]
            : n \in {a \in AudioSizes : a % SampleBytes = 0}}

AnalyzeVoiceTension(audio_data, run) ==
    /\ NoCallYet
    /\ outcome' = Called("analyze_voice_tension",
                         [audio_data |-> audio_data, run |-> run], "none",
                         analyze_voice_tension(audio_data, run.libraries,
                                               run.voiced, run.fails,
                                               run.measured))
    /\ UNCHANGED <<db_vars, today, process_vars, session_vars>>

\* n_samples is len(audio)
ExtractVoiceFeatures(n_samples, run) ==
    /\ NoCallYet
    /\ outcome' = Called("extract_voice_features",
                         [n_samples |-> n_samples, run |-> run], "none",
                         extract_voice_features(n_samples, run.voiced, run.fails,
                                                run.measured))
    /\ UNCHANGED <<db_vars, today, process_vars, session_vars>>

ProcessAudioFile(file, run) ==
    /\ NoCallYet
    /\ outcome' = Called("process_audio_file", [file |-> file, run |-> run], "none",
                         process_audio_file(file, run.libraries, run.voiced,
                                            run.fails, run.measured))
    /\ UNCHANGED <<db_vars, today, process_vars, session_vars>>

\* C12: when the libraries are loaded and feature extraction fails (the buffer
\* cannot be decoded, it is empty, or extract_voice_features meets an
\* exception), analyze_voice_tension returns tension_score 50.0,
\* analysis_successful false and a non-empty error.
C12_ExtractionFailureIsNeutral ==
    (/\ outcome.op = "analyze_voice_tension"
     /\ outcome.arg.run.libraries
     /\ \/ outcome.arg.audio_data % SampleBytes # 0
        \/ outcome.arg.audio_data = 0
        \/ outcome.arg.run.fails)
    => /\ outcome.exc = "none"
       /\ outcome.ret.tension_score = 50 * Tenths
       /\ ~outcome.ret.analysis_successful
       /\ outcome.ret.error \notin {NullStr, ""}

\* journal texts: blank ones, the distortion example, and texts that set off
\* the emotion, theme and distortion rules
SampleTexts ==
    {"", " ", " \n\t ",
     "I will never succeed and everyone thinks I'm a failure",
     "I feel sad", "a wonderful day",
     "I am stressed and angry about work",
     "so tired, I cannot sleep and I hate it",
     "they think I should have known, it always ends in disaster",
     "sleep", "interesting"}

\* what the classifier does with a text: it raises, or labels it
Verdicts ==
    {[raises |-> TRUE, sentiment |-> "NEGATIVE", confidence |-> 90]}
    \cup {[raises |-> FALSE, sentiment |-> s, confidence |-> c]
            : s \in {"NEGATIVE", "POSITIVE"}, c \in {60, 70, 90}}

\* phrases and word parts, joined with or without a space between them
Fragments ==
    {"never", "Always", "the worst", "disaster", "everyone thinks", "I",
     "more", "nothing ever", "have to"}
Joints == {" ", "", ", "}
JoinedTexts ==
    Fragments \cup {a \o j \o b : a \in Fragments, j \in Joints, b \in Fragments}

AnalyzeSentiment(text, model, verdict) ==
    /\ NoCallYet
    /\ outcome' = Called("analyze_sentiment",
                         [text |-> text, model |-> model, verdict |-> verdict],
                         "none", analyze_sentiment(text, model, verdict))
    /\ UNCHANGED <<db_vars, today, process_vars, session_vars>>

GenerateJournalInsights(text, model, verdict) ==
    /\ NoCallYet
    /\ outcome' = Called("generate_journal_insights",
                         [text |-> text, model |-> model, verdict |-> verdict],
                         "none", generate_journal_insights(text, model, verdict))
    /\ UNCHANGED <<db_vars, today, process_vars, session_vars>>

DetectCognitiveDistortions(text) ==
    /\ NoCallYet
    /\ outcome' = Called("detect_cognitive_distortions", [text |-> text], "none",
                         detect_cognitive_distortions(text))
    /\ UNCHANGED <<db_vars, today, process_vars, session_vars>>

\* C13: when load_sentiment_model / load_voice_libraries returned None, the
\* call raises nothing and returns the neutral default: analyze_sentiment
\* (NEUTRAL, 0.5) for any text, analyze_voice_tension and process_audio_file
\* tension_score 50.0 with analysis_successful false.
C13_MissingBackendIsNeutral ==
    /\ (outcome.op = "analyze_sentiment" /\ ~outcome.arg.model)
       => /\ outcome.exc = "none"
          /\ outcome.ret.sentiment = "NEUTRAL"
          /\ outcome.ret.confidence = 50
    /\ (/\ outcome.op \in {"analyze_voice_tension", "process_audio_file"}
        /\ ~outcome.arg.run.libraries)
       => /\ outcome.exc = "none"
          /\ outcome.ret.tension_score = 50 * Tenths
          /\ ~outcome.ret.analysis_successful

\* analyze_voice_tension was given a decodable recording of more than 1000
\* samples while the libraries were missing.
C13_Witness ==
    /\ outcome.op = "analyze_voice_tension"
    /\ ~outcome.arg.run.libraries
    /\ outcome.arg.audio_data > ShimmerMinSamples * SampleBytes
    /\ outcome.arg.audio_data % SampleBytes = 0
    /\ outcome.ret.tension_score = 50 * Tenths

\* the features dicts extract_voice_features can return
FeatureSets ==
    Measurements \cup {[f EXCEPT !.shimmer = Null] : f \in Measurements}
    \cup {DefaultFeatures}

TensionScores == 0..(100 * Tenths)

CalculateTensionScore(features) ==
    /\ NoCallYet
    /\ outcome' = Called("calculate_tension_score", [features |-> features], "none",
                         calculate_tension_score(features))
    /\ UNCHANGED <<db_vars, today, process_vars, session_vars>>

GetTensionInterpretation(tension_score) ==
    /\ NoCallYet
    /\ outcome' = Called("get_tension_interpretation",
                         [tension_score |-> tension_score], "none",
                         get_tension_interpretation(tension_score))
    /\ UNCHANGED <<db_vars, today, process_vars, session_vars>>

\* C14: calculate_tension_score returns 50 plus the amounts of the six rules,
\* clamped to [0, 100]; each amount is at most its cap (pitch variability 20
\* or flat 10, jitter 15, shimmer 10, spectral centroid 10, zero-crossing
\* rate 5, RMS 10 or 15), and only one pitch branch and one RMS branch adds.
\* Amounts and scores in tenths.
C14_TensionScoreRules ==
    outcome.op = "calculate_tension_score"
    => LET f == outcome.arg.features
           value(key) == IF f[key] = Null THEN 0 ELSE f[key]
           pv == value("pitch_variability")
           rms == value("rms_energy")
           high_pitch == IF pv > 20 THEN Min(200, 5 * (pv - 20)) ELSE 0
           flat_pitch == IF pv < 5 THEN 100 ELSE 0
           jitter == IF value("jitter") > 10 THEN Min(150, 10 * value("jitter")) ELSE 0
           shimmer == IF value("shimmer") > 10 THEN Min(100, 5 * value("shimmer")) ELSE 0
           centroid == IF value("spectral_centroid") > 3000
                       THEN Min(100, (value("spectral_centroid") - 3000) \div 50)
                       ELSE 0
           zcr == IF value("zero_crossing_rate") > 15
                  THEN Min(50, 10 * (value("zero_crossing_rate") - 15))
                  ELSE 0
           quiet == IF rms < 5 THEN 100 ELSE 0
           loud == IF rms > 30 THEN 150 ELSE 0
           total == 500 + high_pitch + flat_pitch + jitter + shimmer + centroid
                    + zcr + quiet + loud
       IN  /\ outcome.exc = "none"
           /\ high_pitch = 0 \/ flat_pitch = 0
           /\ quiet = 0 \/ loud = 0
           /\ high_pitch <= 200 /\ jitter <= 150 /\ shimmer <= 100
           /\ centroid <= 100 /\ zcr <= 50
           /\ outcome.ret = Max(0, Min(1000, total))
           /\ 0 <= outcome.ret /\ outcome.ret <= 1000

\* Every rule at its cap: 50 + 20 + 15 + 10 + 10 + 5 + 15 is clamped to 100.
C14_Witness ==
    /\ outcome.op = "calculate_tension_score"
    /\ outcome.arg.features.pitch_variability > 20
    /\ outcome.arg.features.jitter > 15
    /\ outcome.arg.features.shimmer > 20
    /\ outcome.arg.features.rms_energy > 30
    /\ outcome.ret = 1000

\* C15: get_tension_interpretation gives relaxed up to 30, normal above 30 up
\* to 50, mild_stress above 50 up to 70, high_stress above 70, and the label
\* VOICE_TENSION_THRESHOLDS has for that level.  Scores in tenths.
C15_TensionLevels ==
    outcome.op = "get_tension_interpretation"
    => LET s == outcome.arg.tension_score
           level == outcome.ret.level
       IN  /\ level = "relaxed" <=> s <= 300
           /\ level = "normal" <=> (300 < s /\ s <= 500)
           /\ level = "mild_stress" <=> (500 < s /\ s <= 700)
           /\ level = "high_stress" <=> s > 700
           /\ level \in DOMAIN VOICE_TENSION_THRESHOLDS
           /\ outcome.ret.label = VOICE_TENSION_THRESHOLDS[level].label
           /\ outcome.ret.label \in {"Relaxed", "Normal", "Mild Stress", "High Stress"}

\* The score 70.0, on the closed upper bound of mild_stress.
C15_Witness ==
    /\ outcome.op = "get_tension_interpretation"
    /\ outcome.arg.tension_score = 700
    /\ outcome.ret.level = "mild_stress"
    /\ outcome.ret.label = "Mild Stress"

\* C16: for empty or whitespace-only text the sentiment is (NEUTRAL, 0.5) and
\* the backend is not called, both in analyze_sentiment and in the sentiment
\* and sentiment_confidence fields of generate_journal_insights.
C16_BlankTextIsNeutral ==
    /\ (outcome.op = "analyze_sentiment" /\ IsBlank(outcome.arg.text))
       => /\ outcome.ret.sentiment = "NEUTRAL"
          /\ outcome.ret.confidence = 50
          /\ outcome.ret.calls = <<>>
    /\ (outcome.op = "generate_journal_insights" /\ IsBlank(outcome.arg.text))
       => /\ outcome.ret.sentiment = "NEUTRAL"
          /\ outcome.ret.sentiment_confidence = 50
          /\ outcome.ret.calls = <<>>

\* C17: generate_journal_insights on empty or whitespace-only text returns
\* word_count 0, emotion neutral and empty lists of distortions, themes and
\* recommendations.
C17_BlankTextInsights ==
    (outcome.op = "generate_journal_insights" /\ IsBlank(outcome.arg.text))
    => /\ outcome.exc = "none"
       /\ outcome.ret.word_count = 0
       /\ outcome.ret.emotion = "neutral"
       /\ outcome.ret.cognitive_distortions = <<>>
       /\ outcome.ret.themes = <<>>
       /\ outcome.ret.recommendations = <<>>

\* generate_journal_insights was called on a whitespace-only text of several
\* characters, with the classifier loaded.
C17_Witness ==
    /\ outcome.op = "generate_journal_insights"
    /\ Len(outcome.arg.text) > 1 /\ IsBlank(outcome.arg.text)
    /\ outcome.arg.model
    /\ outcome.ret.word_count = 0

\* phrase stands in text with no letter, digit or underscore next to it
Alphanumerics == "abcdefghijklmnopqrstuvwxyz0123456789_"

OccursAsWords(phrase, text) ==
    \E i \in 1..(Len(text) - Len(phrase) + 1) :
        /\ SubSeq(text, i, i + Len(phrase) - 1) = phrase
        /\ (i = 1 \/ ~CharIn(CharAt(text, i - 1), Alphanumerics))
        /\ \/ i + Len(phrase) - 1 = Len(text)
           \/ ~CharIn(CharAt(text, i + Len(phrase)), Alphanumerics)

DistortionIndex(name) ==
    CHOOSE d \in 1..Len(COGNITIVE_DISTORTIONS) : COGNITIVE_DISTORTIONS[d].name = name

\* C18: detect_cognitive_distortions lists each distortion type at most once
\* and in declaration order; a type is listed iff one of its phrases stands
\* in the lower-cased text at word boundaries, with the first such phrase of
\* the type's list as matched_pattern; the example text yields
\* black_and_white (never) and mind_reading (everyone thinks).
C18_DistortionDetection ==
    outcome.op = "detect_cognitive_distortions"
    => LET found == outcome.ret
           text_lower == Lower(outcome.arg.text)
           occurring(d) ==
               {k \in 1..Len(COGNITIVE_DISTORTIONS[d].patterns) :
                   OccursAsWords(COGNITIVE_DISTORTIONS[d].patterns[k], text_lower)}
       IN  /\ \A i, j \in 1..Len(found) :
                 i < j => DistortionIndex(found[i].type) < DistortionIndex(found[j].type)
           /\ \A d \in 1..Len(COGNITIVE_DISTORTIONS) :
                 (\E i \in 1..Len(found) : found[i].type = COGNITIVE_DISTORTIONS[d].name)
                 <=> occurring(d) # {}
           /\ \A i \in 1..Len(found) :
                 LET d == DistortionIndex(found[i].type)
                 IN  /\ found[i].description = COGNITIVE_DISTORTIONS[d].description
                     /\ \E k \in occurring(d) :
                           /\ \A j \in occurring(d) : k <= j
                           /\ found[i].matched_pattern =
                                 COGNITIVE_DISTORTIONS[d].patterns[k]
           /\ outcome.arg.text = "I will never succeed and everyone thinks I'm a failure"
              => /\ Len(found) = 2
                 /\ found[1].type = "black_and_white"
                 /\ found[1].matched_pattern = "never"
                 /\ found[2].type = "mind_reading"
                 /\ found[2].matched_pattern = "everyone thinks"

\* A text with two phrases of one type, the later of the list first in the
\* text: one detection, of the phrase that is first in the list.
C18_Witness ==
    /\ outcome.op = "detect_cognitive_distortions"
    /\ outcome.arg.text = "disaster, the worst"
    /\ Len(outcome.ret) = 1
    /\ outcome.ret[1].matched_pattern = "worst"

\* C19: each recommendation of generate_journal_insights is in the list
\* exactly when its condition holds of the returned sentiment, confidence,
\* emotion, distortions and themes.
C19_RecommendationRules ==
    (outcome.op = "generate_journal_insights" /\ ~IsBlank(outcome.arg.text))
    => LET r == outcome.ret
           negative == r.sentiment = "NEGATIVE"
           confident == negative /\ r.sentiment_confidence > 70
           given(text) == InList(text, r.recommendations)
       IN  /\ given("Consider practicing mindfulness or deep breathing exercises")
                <=> confident
           /\ given("Try progressive muscle relaxation before bed")
                <=> (confident /\ InList("stress/anxiety", r.themes))
           /\ given("Consider journaling about what specifically triggered this anger")
                <=> r.emotion = "anger"
           /\ given("Notice any 'all-or-nothing' thinking patterns and challenge them")
                <=> r.cognitive_distortions # <<>>
           /\ given("Establish a consistent bedtime routine")
                <=> (negative /\ InList("sleep/fatigue", r.themes))

NextServices ==
    \/ \E name \in DOMAIN SeverityDicts : \E score \in Totals(name) :
          GetSeverityLevel(name, score)
    \/ \E text \in SampleTexts, model \in BOOLEAN, verdict \in Verdicts :
          AnalyzeSentiment(text, model, verdict)
    \/ \E text \in SampleTexts, model \in BOOLEAN, verdict \in Verdicts :
          GenerateJournalInsights(text, model, verdict)
    \/ \E text \in SampleTexts \cup JoinedTexts : DetectCognitiveDistortions(text)
    \/ \E audio_data \in AudioSizes, run \in LibraryRuns :
          AnalyzeVoiceTension(audio_data, run)
    \/ \E file \in AudioFiles, run \in LibraryRuns : ProcessAudioFile(file, run)
    \/ \E file \in AudioFiles, run \in LibraryRuns :
          file.readable /\ run.libraries /\ ExtractVoiceFeatures(file.samples, run)
    \/ \E features \in FeatureSets : CalculateTensionScore(features)
    \/ \E tension_score \in TensionScores : GetTensionInterpretation(tension_score)

SpecServices == Init /\ [][NextServices]_vars


C21_SleepFactorOverRecordedRows ==
    LET rows == RecentLogs(user_id)
    IN  (outcome.op = "calculate_burnout_risk" /\ rows # {})
        => /\ SleepLogs(rows) = {r \in rows : r.sleep_hours # Null}
           /\ SleepFactor(rows) = StatedSleepFactor(rows)
           /\ (SleepFactor(rows) = 0 => \A r \in rows : r.sleep_hours = Null)


(***************************************************************************)
(* The thresholds of extract_voice_features                                *)
(***************************************************************************)
\* C22: when extraction does not fail, pitch_variability and jitter are
\* computed exactly when there are at least 10 voiced frames (absent, read
\* as 0, with fewer), and shimmer exactly when the signal has at least 1000
\* samples.
C22_FeatureThresholds ==
    (/\ outcome.op = "extract_voice_features"
     /\ ~outcome.arg.run.fails)
    => LET run == outcome.arg.run
           features == outcome.ret
       IN  /\ IF run.voiced >= 10
              THEN /\ features.pitch_variability = run.measured.pitch_variability
                   /\ features.jitter = run.measured.jitter
              ELSE /\ FeatureGet(features, "pitch_variability") = 0
                   /\ FeatureGet(features, "jitter") = 0
           /\ IF outcome.arg.n_samples >= 1000
              THEN features.shimmer = run.measured.shimmer
              ELSE FeatureGet(features, "shimmer") = 0


(***************************************************************************)
(* The backend loaders behind st.cache_resource.  `what` is what the       *)
(* imports and from_pretrained do in one execution of a loader's body:     *)
(* they succeed, raise ImportError, or raise something else (OSError: a    *)
(* shared library or a model file that cannot be read).                    *)
(***************************************************************************)
MaxLoads == 2                \* executions of one loader's body
ImportOutcomes == {"loaded", "ImportError", "OSError"}

Returned(value) == [exc |-> "none", value |-> value]
Raised(exc) == [exc |-> exc, value |-> FALSE]

\* except ImportError and except Exception both return None, None
load_sentiment_model(what) ==
    IF what = "loaded" THEN Returned(TRUE) ELSE Returned(FALSE)

\* except ImportError only: any other exception leaves the function
load_voice_libraries(what) ==
    IF what = "loaded" THEN Returned(TRUE)
    ELSE IF what = "ImportError" THEN Returned(FALSE)
    ELSE Raised(what)

LoaderBody(f, what) ==
    IF f = "load_sentiment_model" THEN load_sentiment_model(what)
    ELSE load_voice_libraries(what)

\* the calls a script run makes
SentimentCalls ==
    {[op |-> "analyze_sentiment", text |-> t,
      verdict |-> [raises |-> FALSE, sentiment |-> "NEGATIVE", confidence |-> 90]]
        : t \in {"", "I feel sad"}}

VoiceCalls ==
    {[op |-> "analyze_voice_tension", audio_data |-> 2 * SampleBytes,
      voiced |-> MinVoicedFrames + 1, measured |-> QuietVoice]}

BackendCalls == SentimentCalls \cup VoiceCalls

\* analyze_sentiment returns before load_sentiment_model() on blank text
NeedsLoader(call) ==
    call.op = "analyze_voice_tension" \/ ~IsBlank(call.text)

LoaderOf(call) ==
    IF call.op = "analyze_sentiment" THEN "load_sentiment_model"
    ELSE "load_voice_libraries"

\* the rest of the call once the loader has returned `value`
ResultOf(call, value) ==
    IF call.op = "analyze_sentiment"
    THEN analyze_sentiment(call.text, value, call.verdict)
    ELSE analyze_voice_tension(call.audio_data, value, call.voiced, FALSE,
                               call.measured)

Completed(s, call, used, exc, value) ==
    Called(call.op, [session |-> s, call |-> call, used |-> used, value |-> value],
           exc, IF exc = "none" THEN ResultOf(call, value) ELSE NoRet)

\* A script run calls analyze_sentiment or analyze_voice_tension.  The cached
\* loader is looked up first: on a hit the call goes on with the stored
\* value, on a miss the thread goes for the loader's compute lock.
BackendCall(s, call) ==
    /\ threads[s].pc = "idle"
    /\ IF ~NeedsLoader(call)
       THEN /\ outcome' = Completed(s, call, "nothing", "none", FALSE)
            /\ UNCHANGED <<cache_resource, threads>>
       ELSE LET f == LoaderOf(call)
            IN  IF cache_resource[f].cached
                THEN /\ outcome' = Completed(s, call, "cache", "none",
                                             cache_resource[f].value)
                     /\ cache_resource' = [cache_resource EXCEPT ![f].wanted = TRUE]
                     /\ UNCHANGED threads
                ELSE /\ threads' = [threads EXCEPT ![s] = [pc |-> "miss", call |-> call]]
                     /\ cache_resource' = [cache_resource EXCEPT ![f].wanted = TRUE]
                     /\ outcome' = Idle
    /\ UNCHANGED <<db_vars, today, session_vars>>

\* the thread takes the compute lock of the loader it missed
TakeComputeLock(s) ==
    /\ threads[s].pc = "miss"
    /\ LET f == LoaderOf(threads[s].call)
       IN  /\ cache_resource[f].lock = 0
           /\ cache_resource' = [cache_resource EXCEPT ![f].lock = s]
    /\ threads' = [threads EXCEPT ![s].pc = "locked"]
    /\ outcome' = Idle
    /\ UNCHANGED <<db_vars, today, session_vars>>

\* Under the lock the store is read again; if another thread has filled it
\* the value is taken from there, otherwise the loader's body runs: a value
\* it returns is stored, an exception it raises is stored nowhere and leaves
\* the call.
ComputeValue(s, what) ==
    /\ threads[s].pc = "locked"
    /\ LET call == threads[s].call
           f == LoaderOf(call)
           entry == cache_resource[f]
           body == LoaderBody(f, what)
       IN  IF entry.cached
           THEN /\ cache_resource' = [cache_resource EXCEPT ![f].lock = 0]
                /\ outcome' = Completed(s, call, "cache", "none", entry.value)
           ELSE /\ entry.runs < MaxLoads
                /\ cache_resource' =
                     [cache_resource EXCEPT
                        ![f] = [cached |-> body.exc = "none", value |-> body.value,
                                lock |-> 0, runs |-> entry.runs + 1,
                                wanted |-> entry.wanted]]
                /\ outcome' = Completed(s, call, "loader", body.exc, body.value)
    /\ threads' = [threads EXCEPT ![s] = IdleThread]
    /\ UNCHANGED <<db_vars, today, session_vars>>

NextBackends ==
    \/ \E s \in Sessions, call \in BackendCalls : BackendCall(s, call)
    \/ \E s \in Sessions : TakeComputeLock(s)
    \/ \E s \in Sessions, what \in ImportOutcomes : ComputeValue(s, what)

SpecBackends == Init /\ [][NextBackends]_vars

\* C23: each loader's body runs at most once in the process and not before a
\* call that needs the backend; every call that gets past the loader works
\* with the value the store holds, a stored (None, None) included.
C23_LoadOncePerProcess ==
    /\ \A f \in Loaders :
          /\ cache_resource[f].runs <= 1
          /\ cache_resource[f].runs > 0 => cache_resource[f].wanted
          /\ cache_resource[f].cached => cache_resource[f].runs = 1
    /\ (outcome.op \in {"analyze_sentiment", "analyze_voice_tension"}
          /\ NeedsLoader(outcome.arg.call) /\ outcome.exc = "none")
        => /\ cache_resource[LoaderOf(outcome.arg.call)].cached
           /\ outcome.arg.value = cache_resource[LoaderOf(outcome.arg.call)].value


(***************************************************************************)
(* The saves of pages/dashboard.py on the script threads of two browser    *)
(* sessions.  A save is two steps on the database: the SELECT of           *)
(* `.first()`, and the flush and COMMIT when the `with get_session()`      *)
(* block is left (autoflush is off, so nothing is written before).         *)
(***************************************************************************)
MoodSaves ==
    {[op |-> "save_mood_entry", user_id |-> u, entry_date |-> today,
      mood_score |-> mood] : u \in UserIds, mood \in MoodValues}

JournalSaves ==
    {[op |-> "save_journal_entry", user_id |-> u, entry_date |-> today,
      journal_text |-> text] : u \in UserIds, text \in JournalTexts}

\* existing = session.query(DailyLog).filter(...).first(), as found or not
SaveQuery(s, call) ==
    /\ threads[s].pc = "idle"
    /\ threads' = [threads EXCEPT ![s] =
                     [pc |-> "queried", call |-> call,
                      existing |-> LogsFor(call.user_id, call.entry_date) # {}]]
    /\ outcome' = Idle
    /\ UNCHANGED <<db_vars, today, cache_resource, session_vars>>

\* the columns the call assigns
Assigned(call, row) ==
    IF call.op = "save_mood_entry"
    THEN [row EXCEPT !.mood_score = call.mood_score]
    ELSE [row EXCEPT !.journal_text = call.journal_text,
                     !.ai_sentiment = JournalAnalyses[call.journal_text].sentiment,
                     !.ai_emotion = JournalAnalyses[call.journal_text].emotion]

\* Leaving the with block: an existing row is UPDATEd by primary key, a new
\* one INSERTed; the INSERT of a key another session has committed since the
\* SELECT fails, get_session rolls back and re-raises.
SaveCommit(s) ==
    /\ threads[s].pc = "queried"
    /\ LET call == threads[s].call
           res == IF threads[s].existing
                  THEN {UpdateDailyLog(e, Assigned(call, e))
                          : e \in LogsFor(call.user_id, call.entry_date)}
                  ELSE {InsertDailyLog(
                          Assigned(call, DailyLog(call.user_id, call.entry_date,
                                                  Null, NullStr, NullStr, NullStr)))}
       IN  \E r \in res :
              /\ daily_logs' = r.logs
              /\ outcome' = Called(call.op,
                                   [session |-> s, call |-> call,
                                    existing |-> threads[s].existing],
                                   r.exc, NoRet)
    /\ threads' = [threads EXCEPT ![s] = IdleThread]
    /\ UNCHANGED <<users, user_profiles, health_baseline, today, cache_resource,
                   session_vars>>

InitConcurrent ==
    /\ users = UserIds
    /\ user_profiles = {UserProfile(u, FullData) : u \in UserIds}
    /\ health_baseline = {HealthBaseline(u, 0, 0) : u \in UserIds}
    /\ daily_logs = {}
    /\ today = 0
    /\ user_id \in UserIds
    /\ page = "dashboard"
    /\ onboarding_step = 1
    /\ onboarding_data = EmptyData
    /\ show_assessment_results = FALSE
    /\ current_page = NullStr
    /\ outcome = Idle
    /\ cache_resource = EmptyCache
    /\ threads = NoThreads

NextConcurrent ==
    \/ \E s \in Sessions, call \in MoodSaves \cup JournalSaves : SaveQuery(s, call)
    \/ \E s \in Sessions : SaveCommit(s)

SpecConcurrent == InitConcurrent /\ [][NextConcurrent]_vars

\* C24: a save_mood_entry or save_journal_entry whose query found no row for
\* its (user, date), another session's save of the same key under way or
\* not, completes without raising and leaves exactly one row for the key.
C24_ConcurrentSavesBothSucceed ==
    (/\ outcome.op \in {"save_mood_entry", "save_journal_entry"}
     /\ ~outcome.arg.existing)
    => /\ outcome.exc = "none"
       /\ Cardinality(LogsFor(outcome.arg.call.user_id,
                              outcome.arg.call.entry_date)) = 1


(***************************************************************************)
(* The onboarding wizard                                                   *)
(***************************************************************************)
C25_Inv == onboarding_step \in {1, 2, 3, 4}

\* a step of the wizard (the session stays logged in), told by what it does
\* to the session state
C25_Step ==
    /\ (onboarding_step' # onboarding_step /\ user_id' = user_id)
         => \/ /\ onboarding_step' = onboarding_step + 1
               /\ \A k \in DOMAIN onboarding_data : k \in DOMAIN onboarding_data'
               /\ page' = page /\ user_profiles' = user_profiles
            \/ /\ onboarding_step' = onboarding_step - 1
               /\ onboarding_data' = onboarding_data
               /\ page' = page /\ user_profiles' = user_profiles
            \/ /\ onboarding_step = 4 /\ page = "onboarding"
               /\ onboarding_step' = 1
               /\ onboarding_data' = EmptyData
               /\ page' = "clinical"
               /\ ProfilesFor(user_id)' = {UserProfile(user_id, onboarding_data)}
    /\ onboarding_data' # onboarding_data /\ onboarding_data' # EmptyData
         => onboarding_step' = onboarding_step + 1
    /\ user_profiles' \ user_profiles # {}
         => /\ onboarding_step = 4 /\ page = "onboarding"
            /\ onboarding_step' = 1 /\ onboarding_data' = EmptyData
            /\ page' = "clinical"

\* C25: onboarding_step stays in {1,2,3,4}; Next raises it by exactly 1 and
\* Back lowers it by exactly 1; a UserProfile row is written only by Complete
\* Setup at step 4, after which onboarding_step is 1, onboarding_data is
\* empty and the page is 'clinical'.
C25_WizardSteps == [](C25_Inv) /\ [][C25_Step]_vars

\* Complete Setup has saved the profile the wizard collected.
C25_Witness ==
    /\ page = "clinical"
    /\ onboarding_step = 1
    /\ onboarding_data = EmptyData
    /\ ProfilesFor(user_id) =
         {UserProfile(user_id, Merge(Merge(Step1Data, Step2Data), Step3Data))}


(***************************************************************************)
(* Routing after login                                                     *)
(***************************************************************************)
\* the page a login of user u leads to, from the tables
C26_Route(u) ==
    IF ~\E p \in user_profiles : p.user_id = u /\ p.age # Null THEN "onboarding"
    ELSE IF ~\E b \in health_baseline : b.user_id = u /\ b.phq9_score # Null
    THEN "clinical"
    ELSE "dashboard"

C26_Step ==
    outcome'.op = "authenticate_user"
      => IF outcome'.ret.success
         THEN /\ user_id' = outcome'.ret.user_id
              /\ page' = C26_Route(user_id')
              /\ (ProfilesFor(user_id') # {} /\ BaselinesFor(user_id') # {})
                    => page' = "dashboard"
         ELSE user_id' = user_id /\ page' = page

\* C26: a successful login leads to 'onboarding' without a UserProfile with
\* an age, else to 'clinical' without a HealthBaseline with a PHQ-9 score,
\* else to 'dashboard'; a user with a saved profile and a submitted
\* assessment always lands on 'dashboard'; a failed login leaves user_id and
\* page as they were.
C26_LoginRouting == [][C26_Step]_vars

\* A user who saved the profile and submitted an assessment has logged in
\* again, while another account exists that has done neither.
C26_Witness ==
    /\ outcome.op = "authenticate_user" /\ outcome.ret.success
    /\ page = "dashboard"
    /\ ProfilesFor(user_id) # {} /\ BaselinesFor(user_id) # {}
    /\ \E u \in users : ProfilesFor(u) = {}


(***************************************************************************)
(* app.py: main and the sidebar                                            *)
(***************************************************************************)
\* st.session_state.get("page", "auth")
get_current_page == page

\* the pages dict of render_sidebar
SidebarPages == {"dashboard", "clinical", "settings"}

\* A navigation button of the sidebar, shown while a user is logged in:
\* st.session_state.current_page = page_key; st.rerun()
SidebarNavigate(page_key) ==
    /\ user_id # NoUser
    /\ current_page' = page_key
    /\ outcome' = Called("render_sidebar", page_key, "none", NoRet)
    /\ UNCHANGED <<db_vars, today, process_vars, user_id, page, onboarding_step,
                   onboarding_data, show_assessment_results>>

\* The Logout button imports logout_user, a name session_manager does not
\* define: the import raises and the session stays as it is.
SidebarLogout ==
    /\ user_id # NoUser
    /\ outcome' = Called("render_sidebar", "logout", "ImportError", NoRet)
    /\ UNCHANGED <<db_vars, today, process_vars, session_vars>>

NextSidebar ==
    \/ Next
    \/ \E page_key \in SidebarPages : SidebarNavigate(page_key)
    \/ SidebarLogout

SpecSidebar == Init /\ [][NextSidebar]_vars

\* C27: after a sidebar navigation button for Dashboard or Clinical
\* Assessment is clicked, the next run of main routes to that page:
\* get_current_page returns the key the button stored.
C27_SidebarNavigates ==
    (/\ outcome.op = "render_sidebar" /\ outcome.exc = "none"
     /\ outcome.arg \in {"dashboard", "clinical"})
    => get_current_page = outcome.arg


(***************************************************************************)
(* The floor of the tension score                                          *)
(***************************************************************************)
\* C28: calculate_tension_score never returns less than 50 and scores the
\* all-zero feature set 70; a successful analyze_voice_tension result is
\* therefore never interpreted as 'relaxed'.  Scores in tenths.
C28_TensionNeverBelowNeutral ==
    /\ outcome.op = "calculate_tension_score"
         => /\ outcome.ret >= 500
            /\ (\A k \in DOMAIN outcome.arg.features : outcome.arg.features[k] = 0)
                  => outcome.ret = 700
    /\ (outcome.op = "analyze_voice_tension" /\ outcome.ret.analysis_successful)
         => /\ outcome.ret.tension_score >= 500
            /\ get_tension_interpretation(outcome.ret.tension_score).level
                 \notin {"relaxed"}
            /\ outcome.arg.run.fails => outcome.ret.tension_score = 700

\* the all-zero feature set was scored: 50 + 10 (flat pitch) + 10 (quiet)
C28_Witness ==
    /\ outcome.op = "calculate_tension_score"
    /\ outcome.arg.features = DefaultFeatures
    /\ outcome.ret = 700


(***************************************************************************)
(* sleep_hours of table daily_logs                                         *)
(***************************************************************************)
\* C29: no operation of the application sets DailyLog.sleep_hours: every row
\* has none, so the sleep factor of calculate_burnout_risk is 0 for every
\* user (a returned score is the clamped sum of the other three factors) and
\* every analytics dict get_user_analytics returns has sleep_avg 0.
C29_SleepNeverRecorded ==
    /\ \A r \in daily_logs : r.sleep_hours = Null
    /\ \A u \in UserIds : RecentLogs(u) # {} => SleepFactor(RecentLogs(u)) = 0
    /\ (/\ outcome.op = "calculate_burnout_risk" /\ outcome.exc = "none"
        /\ RecentLogs(user_id) # {})
         => outcome.ret.score =
              Min(100 * Scale,
                  StatedMoodFactor(RecentLogs(user_id))
                    + StatedSentimentFactor(RecentLogs(user_id))
                    + StatedTensionFactor(RecentLogs(user_id)))
    /\ (outcome.op = "get_user_analytics" /\ outcome.exc = "none")
         => outcome.ret.sleep_avg = 0

\* calculate_burnout_risk returned a score for a row that the mood save, the
\* journal save and the voice save have all written.
C29_Witness ==
    /\ outcome.op = "calculate_burnout_risk" /\ outcome.exc = "none"
    /\ outcome.ret.score > 0
    /\ \E r \in RecentLogs(user_id) :
          /\ r.mood_score # Null /\ r.journal_text # NullStr
          /\ r.vocal_tension # Null /\ r.sleep_hours = Null


(***************************************************************************)
(* What a save leaves alone                                                *)
(***************************************************************************)
C30_KeyColumns == {"user_id", "log_date"}

\* The step touches at most the row of (user_id, today), and of that row at
\* most the columns `own` (a row it creates has nothing but its key and
\* `own`); the other tables stay as they are.
C30_Frame(own) ==
    LET here(r) == r.user_id = user_id /\ r.log_date = today
        kept == DOMAIN DailyLog(0, 0, Null, NullStr, NullStr, NullStr)
                  \ (own \cup C30_KeyColumns)
        blank == DailyLog(user_id, today, Null, NullStr, NullStr, NullStr)
    IN  /\ {r \in daily_logs' : ~here(r)} = {r \in daily_logs : ~here(r)}
        /\ Cardinality({r \in daily_logs' : here(r)}) <= 1
        /\ \A new \in {r \in daily_logs' : here(r)} :
              \A k \in kept :
                 IF LogsFor(user_id, today) = {} THEN new[k] = blank[k]
                 ELSE \A old \in LogsFor(user_id, today) : new[k] = old[k]
        /\ LogsFor(user_id, today) # {} => \E r \in daily_logs' : here(r)
        /\ UNCHANGED <<users, user_profiles, health_baseline>>

C30_Step ==
    /\ (\E mood \in MoodValues : UpdateMood(mood)) => C30_Frame({"mood_score"})
    /\ (\E text \in JournalTexts : SaveJournal(text))
         => C30_Frame({"journal_text", "ai_sentiment", "ai_emotion"})
    /\ (\E tension_score \in TensionValues : SaveVoice(tension_score))
         => /\ C30_Frame({"vocal_tension"})
            /\ LogsFor(user_id, today) = {} => daily_logs' = daily_logs

\* C30: save_mood_entry changes only mood_score, save_journal_entry only
\* journal_text, ai_sentiment and ai_emotion, save_voice_analysis only
\* vocal_tension, each of the one row of (user, today); the row's other
\* columns and the rows of other users and other dates stay as they are.
C30_SavesChangeOwnFields == [][C30_Step]_vars

\* The voice save has just written the tension into a row that holds a mood
\* and a journal, beside a row of another user or another day.
C30_Witness ==
    /\ outcome.op = "save_voice_analysis" /\ outcome.exc = "none"
    /\ \E r \in LogsFor(user_id, today) :
          /\ r.mood_score # Null /\ r.journal_text # NullStr
          /\ r.vocal_tension = outcome.arg
    /\ \E r \in daily_logs : r.user_id # user_id \/ r.log_date # today

====
